---- MODULE Spec2Model ----
(***************************************************************************)
(* Template_man: the cache-and-render core.                                *)
(*                                                                         *)
(*  - the authoritative store (the templates table of models.py, with its  *)
(*    unique_together constraints) and the publish / archive lifecycle     *)
(*    of views.py;                                                         *)
(*  - the organization-scoped cache-aside TemplateCacheManager of          *)
(*    views.py over the shared remote cache;                               *)
(*  - the RedisClient of redis_client.py (retry and circuit breaker);      *)
(*  - the in-process mirror TemplateCacheManager of cache_manager.py.      *)
(*                                                                         *)
(* Each component has its own specifications over the shared variables:    *)
(* SpecLifecycle, SpecStore and SpecTenants for the store and the          *)
(* cache-aside manager, SpecBreaker for the RedisClient, SpecMirror and    *)
(* SpecConstruct for the mirror.  A specification leaves the variables of  *)
(* the other components at their initial values.                           *)
(***************************************************************************)
EXTENDS Integers, Sequences, FiniteSets, TLC

VARIABLES
    db,         \* the templates table: a sequence of rows, a row's id is its index
    cache,      \* the remote cache: key -> entry (or NoEntry)
    pc,         \* per request handler: where it stands
    inst,       \* per request handler: the in-memory Template instance it loaded
    req,        \* per request handler: the request it serves
    pend,       \* per request handler: rows its open transaction has updated
    data,       \* per request handler: the serialized record a Get is about to cache
    resp,       \* per request handler: the response it is returning
    targets,    \* the (organization, code, language) triples requests name
    rowcap,     \* the number of rows the table may grow to
    is_connected,       \* RedisClient._is_connected
    connection_errors,  \* RedisClient._connection_errors
    initializing,       \* RedisClient._initializing is set
    rpc,        \* per thread calling the RedisClient: where it stands
    attempt,    \* per thread: the attempt of get_connection tenacity is running
    tmp,        \* per thread: the counter value read by `+= 1`
    rres,       \* per thread: how its call ended
    openAtStart,\* per thread: the circuit was open when its call started
    pinged,     \* per thread: its call has pinged the remote store
    rop,         \* per thread: the method of the RedisClient it is running
    instance,           \* mirror: cls._instance exists
    initialized,        \* mirror: _initialized
    templates,          \* mirror: the by-key index
    templates_by_type,  \* mirror: the by-type index
    templates_by_tag,   \* mirror: the by-tag index
    current_version,    \* mirror: the version it last synchronized to (0: None)
    memory_high,        \* mirror: _memory_usage is over the 100 MB limit
    remote_version,     \* the version counter in the remote store
    sync_lock,          \* mirror: the holder of _sync_lock
    lock,               \* mirror: the holder of _lock
    worker_started,     \* mirror: the background sync thread runs
    mpc,        \* per mirror thread: where it stands
    mloc,       \* per mirror thread: its local variables
    mresp,      \* per mirror thread: what its get_template returns
    healed,     \* the keys a self-heal inserted and nothing removed since
    loadedAt,   \* the value the version counter had when the bulk load behind
                \* the by-key index read the table
    template,       \* the template rendered: the names each of its fields refers to
    usage_count,    \* its usage_count column in the store
    usage_log,      \* the rows of TemplateUsageLog, oldest first
    rnd,        \* per thread calling render_template: its locals
    rin,        \* the arguments of the call of render looked at
    rout        \* what that call returns

storeVars == <<db, cache, pc, inst, req, pend, data, resp, targets, rowcap>>

breakerVars == <<is_connected, connection_errors, initializing, rpc, attempt,
                 tmp, rres, openAtStart, pinged, rop>>

mirrorVars == <<instance, initialized, templates, templates_by_type,
                templates_by_tag, current_version, memory_high, remote_version,
                sync_lock, lock, worker_started, mpc, mloc, mresp, healed,
                loadedAt>>

renderVars == <<template, usage_count, usage_log, rnd>>

textVars == <<rin, rout>>

vars == <<storeVars, breakerVars, mirrorVars, renderVars, textVars>>

(***************************************************************************)
(* Bounds of the model                                                     *)
(***************************************************************************)
MaxRows == 2

MaxRowsTenants == 3

\* Connection failures the environment produces while the counter is below it.
MaxErrors == 6

\* _handle_connection_error: `if self._connection_errors >= 5`.
Threshold == 5

\* get_connection: @retry(stop=stop_after_attempt(3), ...).
MaxAttempts == 3

Threads == {"t1", "t2"}

\* A self-heal insert appends to a by-type list while the list is shorter.
MaxList == 2

\* The remote version counter is incremented while it is below it.
MaxVersion == 2

\* render_template is entered while the usage log has fewer rows.
MaxLog == 3

\* The texts rendered have up to so many tokens.
MaxTokens == 3

\* The threads that construct and then use the mirror, and its sync worker.
MThreads == {"c1", "c2"}

Worker == "w"

MLangs == {"en", "fr"}

Procs == {"p1", "p2"}

\* Organization ids, template codes and languages are free-form strings: the
\* organization id is whatever the gateway syncs (views.py 1707-1734), the
\* code is a <str:code> path segment, the language a CharField.
Targets == { <<"a", "c", "en">>, <<"a", "c", "fr">> }

TenantTargets == { <<"a", "c", "en">>, <<"a", "b:c", "en">>, <<"a:b", "c", "en">> }

(***************************************************************************)
(* The authoritative store                                                 *)
(***************************************************************************)
NoRow == [id |-> 0]

IsNone(x) == x.id = 0

Ids(d) == 1..Len(d)

InGroup(d, org, code, language) ==
    {i \in Ids(d) : d[i].org = org /\ d[i].code = code /\ d[i].language = language}

SameGroup(r, s) ==
    r.org = s.org /\ r.code = s.code /\ r.language = s.language

\* The table with the is_default constraint on the default rows only.
UniqueOkDefaultOnly(d) ==
    \A i, j \in Ids(d) :
        (i # j /\ SameGroup(d[i], d[j])) =>
            /\ d[i].version # d[j].version
            /\ ~(d[i].is_default /\ d[j].is_default)

\* The table without the is_default constraint.
UniqueOkVersionOnly(d) ==
    \A i, j \in Ids(d) :
        (i # j /\ SameGroup(d[i], d[j])) => d[i].version # d[j].version

\* Meta.unique_together: (code, version, language, organization) and
\* (code, language, is_default, organization).
UniqueOk(d) ==
    \A i, j \in Ids(d) :
        (i # j /\ SameGroup(d[i], d[j])) =>
            /\ d[i].version # d[j].version
            /\ d[i].is_default # d[j].is_default

\* order_by('-version').first(): the rows of S with the highest version (the
\* database picks among equal versions).
FirstByVersion(d, S) == {i \in S : \A j \in S : d[j].version <= d[i].version}

ActiveDefault(d, org, code, language) ==
    {i \in InGroup(d, org, code, language) :
        d[i].status = "active" /\ d[i].is_default}

\* Template.get_active_template: the records the three queries may return.
get_active_template(d, code, language, org) ==
    LET q1 == ActiveDefault(d, org, code, language)
        q2 == ActiveDefault(d, org, code, "en")
        q3 == {i \in Ids(d) : d[i].org = org /\ d[i].code = code
                              /\ d[i].status = "active"}
    IN  IF q1 # {} THEN {d[i] : i \in FirstByVersion(d, q1)}
        ELSE IF language # "en" /\ q2 # {} THEN {d[i] : i \in FirstByVersion(d, q2)}
        ELSE IF q3 # {} THEN {d[i] : i \in FirstByVersion(d, q3)}
        ELSE {NoRow}

NewRow(d, org, code, language, version) ==
    [id |-> Len(d) + 1, org |-> org, code |-> code, language |-> language,
     version |-> version, status |-> "draft", is_default |-> FALSE,
     published_at |-> "null", deactivated_at |-> "null"]

(***************************************************************************)
(* The cache-aside manager of views.py                                     *)
(***************************************************************************)
_make_template_cache_key(code, language, organization_id) ==
    "template:" \o organization_id \o ":" \o code \o ":" \o language

Keys == { _make_template_cache_key(t[2], t[3], t[1]) : t \in targets }

KeyOf(r) == _make_template_cache_key(r.code, r.language, r.org)

\* _serialize_template followed by json.dumps; json.loads gives the same
\* mapping back (strings, integers and booleans only).
_serialize_template(t) ==
    [id |-> t.id, code |-> t.code, language |-> t.language,
     version |-> t.version, status |-> t.status, is_default |-> t.is_default,
     published_at |-> t.published_at, organization_id |-> t.org]

NoEntry == [id |-> 0]

NoReq == [org |-> "", code |-> "", language |-> "", action |-> ""]

NoResp == [kind |-> "none", org |-> "", code |-> "", language |-> "",
           action |-> "", outcome |-> "", value |-> NoRow, hit |-> FALSE, stale |-> FALSE,
           current |-> TRUE, left |-> FALSE]

\* The handler has its response: its locals are gone.
Idle(p) ==
    /\ pc' = [pc EXCEPT ![p] = "done"]
    /\ inst' = [inst EXCEPT ![p] = NoRow]
    /\ req' = [req EXCEPT ![p] = NoReq]
    /\ pend' = [pend EXCEPT ![p] = {}]
    /\ data' = [data EXCEPT ![p] = NoEntry]

\* The response of a handler. hit, stale, current and left describe it for the
\* properties below: a cache hit; the entry was loaded before an invalidation
\* of its key returned; the value is what the store answers now; the entry
\* cached before the mutation was still there when success was returned.
Respond(p, r, kind, outcome, value, hit, stale, current, left) ==
    resp' = [resp EXCEPT ![p] =
        [kind |-> kind, org |-> r.org, code |-> r.code, language |-> r.language,
         action |-> r.action, outcome |-> outcome, value |-> value, hit |-> hit, stale |-> stale,
         current |-> current, left |-> left]]

Answers(d, r) ==
    {_serialize_template(t) :
        t \in {x \in get_active_template(d, r.code, r.language, r.org) : ~IsNone(x)}}

InitOn(T, cap, rows) ==
    /\ targets = T
    /\ rowcap = cap
    /\ db = rows
    /\ cache = [k \in Keys |-> NoEntry]
    /\ pc = [p \in Procs |-> "idle"]
    /\ inst = [p \in Procs |-> NoRow]
    /\ req = [p \in Procs |-> NoReq]
    /\ pend = [p \in Procs |-> {}]
    /\ data = [p \in Procs |-> NoEntry]
    /\ resp = [p \in Procs |-> NoResp]

\* A manager that takes any organization_id as given.
OrgAlwaysGiven(organization_id) == FALSE

\* `if not organization_id`: None or the empty string.
OrgMissing(organization_id) == organization_id = ""

\* get_template, lines 1301-1303: no organization_id, None is returned.
GetRejected(p, t) ==
    LET r == [org |-> t[1], code |-> t[2], language |-> t[3], action |-> "get"]
    IN  /\ pc[p] = "idle"
        /\ OrgMissing(t[1])
        /\ Respond(p, r, "get", "absent", NoRow, FALSE, FALSE, TRUE, FALSE)
        /\ pc' = [pc EXCEPT ![p] = "done"]
        /\ UNCHANGED <<db, cache, inst, req, pend, data, targets, rowcap, breakerVars, mirrorVars, renderVars, textVars>>

\* get_template, first part: the cache read. A hit returns json.loads of the
\* entry, None for a cached null; a miss or a cache error goes on to the store.
GetCache(p, t) ==
    LET r == [org |-> t[1], code |-> t[2], language |-> t[3], action |-> "get"]
        k == KeyOf(r)
    IN  /\ pc[p] = "idle"
        /\ ~OrgMissing(t[1])
        /\ \E ok \in BOOLEAN :
              IF ok /\ ~IsNone(cache[k])
              THEN /\ Respond(p, r, "get",
                              IF IsNone(cache[k].data) THEN "absent" ELSE "found",
                              cache[k].data, TRUE,
                              cache[k].stale, cache[k].data \in Answers(db, r), FALSE)
                   /\ pc' = [pc EXCEPT ![p] = "done"]
                   /\ UNCHANGED req
              ELSE /\ pc' = [pc EXCEPT ![p] = "get_db"]
                   /\ req' = [req EXCEPT ![p] = r]
                   /\ UNCHANGED resp
        /\ UNCHANGED <<db, cache, inst, pend, data, targets, rowcap, breakerVars, mirrorVars, renderVars, textVars>>

\* A get_template that caches the absence of a record as well.
GetDbNegative(p) ==
    /\ pc[p] = "get_db"
    /\ \E t \in get_active_template(db, req[p].code, req[p].language, req[p].org) :
          data' = [data EXCEPT ![p] =
                      [id |-> 1, data |-> IF IsNone(t) THEN NoRow ELSE _serialize_template(t),
                       pre |-> FALSE, stale |-> FALSE]]
    /\ pc' = [pc EXCEPT ![p] = "get_set"]
    /\ UNCHANGED <<inst, req, pend, resp>>
    /\ UNCHANGED <<db, cache, targets, rowcap, breakerVars, mirrorVars, renderVars, textVars>>

\* get_template, second part: Template.get_active_template.
GetDb(p) ==
    /\ pc[p] = "get_db"
    /\ \E t \in get_active_template(db, req[p].code, req[p].language, req[p].org) :
          IF IsNone(t)
          THEN /\ Respond(p, req[p], "get", "absent", NoRow, FALSE, FALSE, TRUE, FALSE)
               /\ Idle(p)
          ELSE /\ data' = [data EXCEPT ![p] =
                      [id |-> 1, data |-> _serialize_template(t),
                       pre |-> FALSE, stale |-> FALSE]]
               /\ pc' = [pc EXCEPT ![p] = "get_set"]
               /\ UNCHANGED <<inst, req, pend, resp>>
    /\ UNCHANGED <<db, cache, targets, rowcap, breakerVars, mirrorVars, renderVars, textVars>>

\* A get_template that lets the failure of setex reach its caller.
GetSetSurfaced(p) ==
    /\ pc[p] = "get_set"
    /\ \E ok \in BOOLEAN :
          /\ cache' = IF ok THEN [cache EXCEPT ![KeyOf(req[p])] = data[p]] ELSE cache
          /\ Respond(p, req[p], "get", IF ok THEN "found" ELSE "error",
                     IF ok THEN data[p].data ELSE NoRow, FALSE, data[p].stale,
                     data[p].data \in Answers(db, req[p]), FALSE)
    /\ Idle(p)
    /\ UNCHANGED <<db, targets, rowcap, breakerVars, mirrorVars, renderVars, textVars>>

\* get_template, third part: setex with the TTL; a failed write is ignored.
GetSet(p) ==
    /\ pc[p] = "get_set"
    /\ \E ok \in BOOLEAN :
          cache' = IF ok THEN [cache EXCEPT ![KeyOf(req[p])] = data[p]] ELSE cache
    /\ Respond(p, req[p], "get", "found", data[p].data, FALSE, data[p].stale,
               data[p].data \in Answers(db, req[p]), FALSE)
    /\ Idle(p)
    /\ UNCHANGED <<db, targets, rowcap, breakerVars, mirrorVars, renderVars, textVars>>

\* The TTL of an entry runs out.
CacheExpire(k) ==
    /\ ~IsNone(cache[k])
    /\ cache' = [cache EXCEPT ![k] = NoEntry]
    /\ UNCHANGED <<db, pc, inst, req, pend, data, resp, targets, rowcap, breakerVars, mirrorVars, renderVars, textVars>>

(***************************************************************************)
(* The API handlers of views.py that write the store                       *)
(***************************************************************************)
\* _create_template: the existence check and the insert of version 1 as a draft.
CreateTemplate(p, t) ==
    LET r == [org |-> t[1], code |-> t[2], language |-> t[3], action |-> "create"]
        existing == InGroup(db, r.org, r.code, r.language)
        d2 == Append(db, NewRow(db, r.org, r.code, r.language, 1))
    IN  /\ pc[p] = "idle"
        /\ t[1] # ""
        /\ Len(db) < rowcap
        /\ IF existing # {}
           THEN /\ Respond(p, r, "create",
                           IF Cardinality(existing) = 1 THEN "validation_error"
                           ELSE "internal_error", NoRow, FALSE, FALSE, TRUE, FALSE)
                /\ UNCHANGED db
           ELSE IF UniqueOk(d2)
           THEN /\ db' = d2
                /\ Respond(p, r, "create", "success", NoRow, FALSE, FALSE, TRUE, FALSE)
           ELSE /\ Respond(p, r, "create", "internal_error", NoRow, FALSE, FALSE,
                           TRUE, FALSE)
                /\ UNCHANGED db
        /\ pc' = [pc EXCEPT ![p] = "done"]
        /\ UNCHANGED <<cache, inst, req, pend, data, targets, rowcap, breakerVars, mirrorVars, renderVars, textVars>>

\* _update_template: a new draft version on top of the current active default.
UpdateTemplate(p, t) ==
    LET r == [org |-> t[1], code |-> t[2], language |-> t[3], action |-> "update"]
        cur == FirstByVersion(db, ActiveDefault(db, r.org, r.code, r.language))
    IN  /\ pc[p] = "idle"
        /\ t[1] # ""
        /\ Len(db) < rowcap
        /\ IF cur = {}
           THEN /\ Respond(p, r, "update", "not_found", NoRow, FALSE, FALSE, TRUE, FALSE)
                /\ UNCHANGED db
           ELSE \E i \in cur :
                  LET d2 == Append(db, NewRow(db, r.org, r.code, r.language,
                                              db[i].version + 1))
                  IN  IF UniqueOk(d2)
                      THEN /\ db' = d2
                           /\ Respond(p, r, "update", "success", NoRow, FALSE, FALSE,
                                      TRUE, FALSE)
                      ELSE /\ Respond(p, r, "update", "internal_error", NoRow, FALSE,
                                      FALSE, TRUE, FALSE)
                           /\ UNCHANGED db
        /\ pc' = [pc EXCEPT ![p] = "done"]
        /\ UNCHANGED <<cache, inst, req, pend, data, targets, rowcap, breakerVars, mirrorVars, renderVars, textVars>>

\* _manage_template_lifecycle, first part: load the latest version of the
\* group and check the action against its status.
LifecycleLoad(p, t, action) ==
    LET r == [org |-> t[1], code |-> t[2], language |-> t[3], action |-> action]
        latest == FirstByVersion(db, InGroup(db, r.org, r.code, r.language))
    IN  /\ pc[p] = "idle"
        /\ t[1] # ""
        /\ IF latest = {}
           THEN /\ Respond(p, r, "lifecycle", "not_found", NoRow, FALSE, FALSE,
                           TRUE, FALSE)
                /\ pc' = [pc EXCEPT ![p] = "done"]
                /\ UNCHANGED <<inst, req>>
           ELSE \E i \in latest :
                  IF \/ action = "publish" /\ db[i].status = "active"
                     \/ action = "archive" /\ db[i].status = "archived"
                  THEN /\ Respond(p, r, "lifecycle", "validation_error", NoRow,
                                  FALSE, FALSE, TRUE, FALSE)
                       /\ pc' = [pc EXCEPT ![p] = "done"]
                       /\ UNCHANGED <<inst, req>>
                  ELSE /\ pc' = [pc EXCEPT ![p] =
                              IF action = "publish" THEN "act_update" ELSE "arch_check"]
                       /\ inst' = [inst EXCEPT ![p] = db[i]]
                       /\ req' = [req EXCEPT ![p] = r]
                       /\ UNCHANGED resp
        /\ UNCHANGED <<db, cache, pend, data, targets, rowcap, breakerVars, mirrorVars, renderVars, textVars>>

\* Template.activate, inside transaction.atomic: the UPDATE that clears
\* is_default on the other defaults of the group.
OtherDefaults(d, self) ==
    {i \in InGroup(d, self.org, self.code, self.language) :
        d[i].is_default /\ i # self.id}

ClearDefaults(d, S) ==
    [i \in Ids(d) |-> IF i \in S THEN [d[i] EXCEPT !.is_default = FALSE] ELSE d[i]]

ActivateUpdate(p) ==
    LET others == OtherDefaults(db, inst[p])
    IN  /\ pc[p] = "act_update"
        /\ IF UniqueOk(ClearDefaults(db, others))
           THEN /\ pend' = [pend EXCEPT ![p] = others]
                /\ pc' = [pc EXCEPT ![p] = "act_save"]
                /\ UNCHANGED <<inst, req, data, resp>>
           ELSE /\ Respond(p, req[p], "lifecycle", "internal_error", NoRow, FALSE,
                           FALSE, TRUE, FALSE)
                /\ Idle(p)
        /\ UNCHANGED <<db, cache, targets, rowcap, breakerVars, mirrorVars, renderVars, textVars>>

\* The fields activate() sets on the instance before save().
Activated(self) ==
    [self EXCEPT !.status = "active", !.published_at = "set", !.is_default = TRUE]

\* An entry that is in the cache when a mutation of its key commits was cached
\* before the mutation.
MarkPre(c, k) ==
    IF IsNone(c[k]) THEN c ELSE [c EXCEPT ![k].pre = TRUE]

\* Template.activate: save() of the instance and the commit of the transaction.
ActivateSave(p) ==
    LET d2 == [ClearDefaults(db, pend[p]) EXCEPT ![inst[p].id] = Activated(inst[p])]
    IN  /\ pc[p] = "act_save"
        /\ IF UniqueOk(d2)
           THEN /\ db' = d2
                /\ cache' = MarkPre(cache, KeyOf(req[p]))
                /\ inst' = [inst EXCEPT ![p] = Activated(inst[p])]
                /\ pend' = [pend EXCEPT ![p] = {}]
                /\ pc' = [pc EXCEPT ![p] = "invalidate"]
                /\ UNCHANGED <<req, data, resp>>
           ELSE /\ Respond(p, req[p], "lifecycle", "internal_error", NoRow, FALSE,
                           FALSE, TRUE, FALSE)
                /\ Idle(p)
                /\ UNCHANGED <<db, cache>>
        /\ UNCHANGED <<targets, rowcap, breakerVars, mirrorVars, renderVars, textVars>>

\* Template.archive: the check that guards the default version.
OtherActive(d, self) ==
    {i \in InGroup(d, self.org, self.code, self.language) :
        d[i].status = "active" /\ i # self.id}

\* archive() without its guard.
ArchiveUnguarded(d, self) == TRUE

ArchiveAllowed(d, self) ==
    self.is_default => OtherActive(d, self) # {}

ArchiveCheck(p) ==
    /\ pc[p] = "arch_check"
    /\ IF ArchiveAllowed(db, inst[p])
       THEN /\ pc' = [pc EXCEPT ![p] = "arch_save"]
            /\ UNCHANGED <<inst, req, pend, data, resp>>
       ELSE /\ Respond(p, req[p], "lifecycle", "validation_error", NoRow, FALSE,
                       FALSE, TRUE, FALSE)
            /\ Idle(p)
    /\ UNCHANGED <<db, cache, targets, rowcap, breakerVars, mirrorVars, renderVars, textVars>>

\* The fields archive() sets on the instance before save().
Archived(self) ==
    [self EXCEPT !.status = "archived", !.deactivated_at = "set",
                 !.is_default = FALSE]

\* Template.archive: save() of the instance.
ArchiveSave(p) ==
    LET d2 == [db EXCEPT ![inst[p].id] = Archived(inst[p])]
    IN  /\ pc[p] = "arch_save"
        /\ IF UniqueOk(d2)
           THEN /\ db' = d2
                /\ cache' = MarkPre(cache, KeyOf(req[p]))
                /\ inst' = [inst EXCEPT ![p] = Archived(inst[p])]
                /\ pc' = [pc EXCEPT ![p] = "invalidate"]
                /\ UNCHANGED <<req, pend, data, resp>>
           ELSE /\ Respond(p, req[p], "lifecycle", "internal_error", NoRow, FALSE,
                           FALSE, TRUE, FALSE)
                /\ Idle(p)
                /\ UNCHANGED <<db, cache>>
        /\ UNCHANGED <<targets, rowcap, breakerVars, mirrorVars, renderVars, textVars>>

\* What was loaded from the store before an invalidation of k returned is, from
\* then on, loaded before the invalidation: the entry a failed delete left, and
\* the record a Get in flight is about to cache.
MarkStale(c, k) ==
    IF IsNone(c[k]) THEN c ELSE [c EXCEPT ![k].stale = TRUE]

\* invalidate_template: delete the key, a failure is logged and swallowed; then
\* _manage_template_lifecycle returns success.
InvalidateTemplate(p) ==
    LET k == KeyOf(req[p])
    IN  /\ pc[p] = "invalidate"
        /\ \E ok \in BOOLEAN :
              /\ cache' = IF ok THEN [cache EXCEPT ![k] = NoEntry]
                          ELSE MarkStale(cache, k)
              /\ Respond(p, req[p], "lifecycle", "success", NoRow, FALSE, FALSE, TRUE,
                         ~ok /\ ~IsNone(cache[k]) /\ cache[k].pre)
        /\ pc' = [pc EXCEPT ![p] = "done"]
        /\ inst' = [inst EXCEPT ![p] = NoRow]
        /\ req' = [req EXCEPT ![p] = NoReq]
        /\ pend' = [pend EXCEPT ![p] = {}]
        /\ data' = [q \in Procs |->
                      IF q # p /\ pc[q] = "get_set" /\ KeyOf(req[q]) = k
                      THEN [data[q] EXCEPT !.stale = TRUE] ELSE data[q]]
        /\ UNCHANGED <<db, targets, rowcap, breakerVars, mirrorVars, renderVars, textVars>>

\* The response has gone out; the worker takes the next request.
Return(p) ==
    /\ pc[p] = "done"
    /\ pc' = [pc EXCEPT ![p] = "idle"]
    /\ resp' = [resp EXCEPT ![p] = NoResp]
    /\ UNCHANGED <<db, cache, inst, req, pend, data, targets, rowcap, breakerVars, mirrorVars, renderVars, textVars>>

\* The handlers that write the store, run by the workers W.
NextWrites(W) ==
    \/ \E p \in W, t \in targets : CreateTemplate(p, t)
    \/ \E p \in W, t \in targets : UpdateTemplate(p, t)
    \/ \E p \in W, t \in targets, a \in {"publish", "archive"} :
          LifecycleLoad(p, t, a)
    \/ \E p \in W : ActivateUpdate(p)
    \/ \E p \in W : ActivateSave(p)
    \/ \E p \in W : ArchiveCheck(p)
    \/ \E p \in W : ArchiveSave(p)
    \/ \E p \in W : InvalidateTemplate(p)
    \/ \E p \in W : Return(p)

\* get_template, run by the workers R, and the TTL of the remote cache.
NextReads(R) ==
    \/ \E p \in R, t \in targets : GetCache(p, t)
    \/ \E p \in R : GetDb(p)
    \/ \E p \in R : GetSet(p)
    \/ \E p \in R : Return(p)
    \/ \E k \in Keys : CacheExpire(k)

(***************************************************************************)
(* RedisClient (redis_client.py): get_connection under tenacity, the       *)
(* re-initialization of a disconnected client, the error counter           *)
(***************************************************************************)
\* The module-level RedisClient() has been constructed: _initialize() pinged
\* the store and set _is_connected; __init__ set the counter to 0.
InitBreaker ==
    /\ is_connected = TRUE
    /\ connection_errors = 0
    /\ initializing = FALSE
    /\ rpc = [t \in Threads |-> "idle"]
    /\ attempt = [t \in Threads |-> 0]
    /\ tmp = [t \in Threads |-> 0]
    /\ rres = [t \in Threads |-> "none"]
    /\ openAtStart = [t \in Threads |-> FALSE]
    /\ pinged = [t \in Threads |-> FALSE]
    /\ rop = [t \in Threads |-> "none"]

\* The circuit is open: the threshold branch of _handle_connection_error has
\* marked the client disconnected.
CircuitOpen == ~is_connected /\ connection_errors >= Threshold

\* health_check, lines 271-289, without its try block: what the body returns
\* or raises when get_connection and the commands end with r.
health_check_unguarded(r) == IF r = "ok" THEN "healthy" ELSE r

\* health_check, lines 271-289: the whole body is inside `try`, and
\* `except Exception` turns whatever get_connection, ping or info raised into
\* the dictionary with status unhealthy.
health_check(r) == IF r = "ok" THEN "healthy" ELSE "unhealthy"

\* The call of thread t ends with r: the value returned or the exception
\* raised by get / set / ..., the dictionary returned by health_check.
Finish(t, r) ==
    /\ rpc' = [rpc EXCEPT ![t] = "done"]
    /\ rres' = [rres EXCEPT ![t] = IF rop[t] = "health_check" THEN health_check(r) ELSE r]

\* A predicate that would retry whatever get_connection raises.
retry_if_any_exception(exc) == TRUE

\* The retry predicate of get_connection, line 158:
\* retry_if_exception_type((redis.ConnectionError, redis.TimeoutError)).
\* RedisConnectionError (line 19) derives from Exception, not from either.
retry_if_exception_type(exc) == exc \in {"ConnectionError", "TimeoutError"}

\* get_connection raises exc in attempt number attempt[t]: tenacity runs the
\* next attempt when the predicate holds and stop_after_attempt(3) is not
\* reached, raises RetryError when it holds and the attempts are used up, and
\* lets the exception through otherwise.
Raise(t, exc) ==
    IF retry_if_exception_type(exc)
    THEN IF attempt[t] < MaxAttempts
         THEN /\ attempt' = [attempt EXCEPT ![t] = @ + 1]
              /\ rpc' = [rpc EXCEPT ![t] = "check_initializing"]
              /\ UNCHANGED rres
         ELSE /\ Finish(t, "RetryError")
              /\ UNCHANGED attempt
    ELSE /\ Finish(t, exc)
         /\ UNCHANGED attempt

\* get / set / setex / incr / expire / delete: `with self.get_connection()`.
CallStart(t, o) ==
    /\ rpc[t] = "idle"
    /\ rop' = [rop EXCEPT ![t] = o]
    /\ rpc' = [rpc EXCEPT ![t] = "check_initializing"]
    /\ attempt' = [attempt EXCEPT ![t] = 1]
    /\ openAtStart' = [openAtStart EXCEPT ![t] = CircuitOpen]
    /\ pinged' = [pinged EXCEPT ![t] = FALSE]
    /\ UNCHANGED <<is_connected, connection_errors, initializing, tmp, rres, storeVars, mirrorVars, renderVars, textVars>>

\* get_connection, lines 168-173: RedisConnectionError while another thread
\* is inside _initialize; tenacity does not retry that exception.
CheckInitializing(t) ==
    /\ rpc[t] = "check_initializing"
    /\ IF initializing
       THEN Raise(t, "RedisConnectionError")
       ELSE /\ rpc' = [rpc EXCEPT ![t] = "check_connected"]
            /\ UNCHANGED <<rres, attempt>>
    /\ UNCHANGED <<is_connected, connection_errors, initializing, tmp,
                   openAtStart, pinged, rop, storeVars, mirrorVars, renderVars, textVars>>

\* get_connection, lines 176-182: a disconnected client whose _initializing
\* flag is not set calls _initialize; no lock is held between this test and
\* the assignment of the flag.
CheckConnected(t) ==
    /\ rpc[t] = "check_connected"
    /\ rpc' = [rpc EXCEPT ![t] = IF ~is_connected /\ ~initializing
                                 THEN "init_start" ELSE "conn_ping"]
    /\ UNCHANGED <<is_connected, connection_errors, initializing, attempt, tmp, rres,
                   openAtStart, pinged, rop, storeVars, mirrorVars, renderVars, textVars>>

\* _initialize, line 80: `self._initializing = True`.
InitStart(t) ==
    /\ rpc[t] = "init_start"
    /\ initializing' = TRUE
    /\ rpc' = [rpc EXCEPT ![t] = "init_ping"]
    /\ UNCHANGED <<is_connected, connection_errors, attempt, tmp, rres,
                   openAtStart, pinged, rop, storeVars, mirrorVars, renderVars, textVars>>

\* _initialize, lines 99-136: a new pool, a ping through it, _is_connected
\* set from the outcome, the flag dropped in the finally clause.  The counter
\* is not touched.  A failure is a RedisConnectionError, which get_connection
\* re-raises (line 203) without counting it and tenacity does not retry.
InitPing(t, ok) ==
    /\ rpc[t] = "init_ping"
    /\ pinged' = [pinged EXCEPT ![t] = TRUE]
    /\ is_connected' = ok
    /\ initializing' = FALSE
    /\ IF ok
       THEN /\ rpc' = [rpc EXCEPT ![t] = "conn_ping"]
            /\ UNCHANGED <<rres, attempt>>
       ELSE Raise(t, "RedisConnectionError")
    /\ UNCHANGED <<connection_errors, tmp, openAtStart, rop, storeVars, mirrorVars, renderVars, textVars>>

\* get_connection, lines 188-199: the ping of the connection it hands out.
ConnPing(t, ok) ==
    /\ rpc[t] = "conn_ping"
    /\ ok \/ connection_errors < MaxErrors
    /\ pinged' = [pinged EXCEPT ![t] = TRUE]
    /\ IF ok
       THEN /\ rpc' = [rpc EXCEPT ![t] = "command"]
            /\ UNCHANGED is_connected
       ELSE /\ is_connected' = FALSE
            /\ rpc' = [rpc EXCEPT ![t] = "handle_read"]
    /\ UNCHANGED <<connection_errors, initializing, attempt, tmp, rres,
                   openAtStart, rop, storeVars, mirrorVars, renderVars, textVars>>

\* _handle_connection_error, line 209: `self._connection_errors += 1` reads ...
HandleRead(t) ==
    /\ rpc[t] = "handle_read"
    /\ tmp' = [tmp EXCEPT ![t] = connection_errors]
    /\ rpc' = [rpc EXCEPT ![t] = "handle_write"]
    /\ UNCHANGED <<is_connected, connection_errors, initializing, attempt, rres,
                   openAtStart, pinged, rop, storeVars, mirrorVars, renderVars, textVars>>

\* ... and writes; lines 213-214 open the circuit; then tenacity retries the
\* attempt or gives up with a RetryError.
HandleWrite(t) ==
    /\ rpc[t] = "handle_write"
    /\ connection_errors' = tmp[t] + 1
    /\ is_connected' = IF tmp[t] + 1 >= Threshold THEN FALSE ELSE is_connected
    /\ Raise(t, "ConnectionError")
    /\ UNCHANGED <<initializing, tmp, openAtStart, pinged, rop, storeVars, mirrorVars, renderVars, textVars>>

\* get_connection, lines 203-205: the ping raises something that is neither a
\* redis.ConnectionError nor a redis.TimeoutError (a ResponseError of a
\* server that is loading its data set, say); the error is logged and raised,
\* the client's fields are left alone.
ConnPingOther(t) ==
    /\ rpc[t] = "conn_ping"
    /\ pinged' = [pinged EXCEPT ![t] = TRUE]
    /\ Raise(t, "ResponseError")
    /\ UNCHANGED <<is_connected, connection_errors, initializing, tmp,
                   openAtStart, rop, storeVars, mirrorVars, renderVars, textVars>>

\* The command on the connection get_connection returned; ping and
\* info('memory') for health_check.
Command(t, ok) ==
    /\ rpc[t] = "command"
    /\ Finish(t, IF ok THEN "ok" ELSE "command_error")
    /\ UNCHANGED <<is_connected, connection_errors, initializing, attempt, tmp,
                   openAtStart, pinged, rop, storeVars, mirrorVars, renderVars, textVars>>

CallReturn(t) ==
    /\ rpc[t] = "done"
    /\ rpc' = [rpc EXCEPT ![t] = "idle"]
    /\ rres' = [rres EXCEPT ![t] = "none"]
    /\ attempt' = [attempt EXCEPT ![t] = 0]
    /\ tmp' = [tmp EXCEPT ![t] = 0]
    /\ openAtStart' = [openAtStart EXCEPT ![t] = FALSE]
    /\ pinged' = [pinged EXCEPT ![t] = FALSE]
    /\ rop' = [rop EXCEPT ![t] = "none"]
    /\ UNCHANGED <<is_connected, connection_errors, initializing, storeVars, mirrorVars, renderVars, textVars>>

\* The calls of the methods Ops by the threads.
NextBreakerOf(Ops) ==
    \/ \E t \in Threads, o \in Ops : CallStart(t, o)
    \/ \E t \in Threads : CheckInitializing(t)
    \/ \E t \in Threads : CheckConnected(t)
    \/ \E t \in Threads : InitStart(t)
    \/ \E t \in Threads, ok \in BOOLEAN : InitPing(t, ok)
    \/ \E t \in Threads, ok \in BOOLEAN : ConnPing(t, ok)
    \/ \E t \in Threads : HandleRead(t)
    \/ \E t \in Threads : HandleWrite(t)
    \/ \E t \in Threads, ok \in BOOLEAN : Command(t, ok)
    \/ \E t \in Threads : CallReturn(t)

\* The commands get / set / setex / incr / expire / delete.
NextBreaker == NextBreakerOf({"command"})

\* The commands and health_check, and a store whose ping can fail with an
\* error that is not a connection error.
NextHealth ==
    \/ NextBreakerOf({"command", "health_check"})
    \/ \E t \in Threads : ConnPingOther(t)

(***************************************************************************)
(* The in-process mirror: TemplateCacheManager of cache_manager.py         *)
(***************************************************************************)
MAll == MThreads \cup {Worker}

Types == {"email"}

Tags == {"t"}

\* Columns of a row the store part does not carry: every row is an email
\* template, the English ones are tagged.
template_type(r) == "email"

tags(r) == IF r.language = "en" THEN {"t"} ELSE {}

\* cache_key = f"{code}:{language}"
MirrorKey(code, language) == code \o ":" \o language

MKeys == {MirrorKey("c", l) : l \in MLangs}

\* cache_manager.py _serialize_template
MirrorSerialize(r) ==
    [id |-> r.id, code |-> r.code, language |-> r.language, version |-> r.version,
     type |-> template_type(r), tags |-> tags(r), is_default |-> r.is_default,
     status |-> r.status, published_at |-> r.published_at]

RecKey(e) == MirrorKey(e.code, e.language)

NoLoc == [op |-> "", language |-> "", force |-> FALSE, rv |-> 0, new |-> <<>>,
          high |-> FALSE, healed |-> FALSE, row |-> NoRow, during |-> FALSE,
          at |-> 0]

\* A thread holds _sync_lock and is past the version check of sync_from_db:
\* its bulk load and swap are under way.
ReloadRunning ==
    \E u \in MAll :
        /\ sync_lock = u
        /\ mpc[u] \in {"load_read", "swap_templates", "swap_by_type", "swap_by_tag",
                       "sync_finish"}

NoMResp == [kind |-> "none", key |-> "", hit |-> FALSE, healed |-> FALSE,
            value |-> NoEntry]

EmptyIndex == [k \in MKeys |-> NoEntry]

EmptyByType == [ty \in Types |-> <<>>]

EmptyByTag == [tg \in Tags |-> <<>>]

\* The table the mirror reads: a draft of code "c" in each language.
MirrorRows ==
    LET d1 == <<NewRow(<<>>, "a", "c", "en", 1)>>
    IN  Append(d1, NewRow(d1, "a", "c", "fr", 1))

\* The mirror before (constructed FALSE: no TemplateCacheManager() has been
\* called yet in this process) or after its construction over a table without
\* active rows, with the remote version counter at v.
InitMirrorAt(constructed, v) ==
    /\ instance = constructed
    /\ initialized = constructed
    /\ templates = EmptyIndex
    /\ templates_by_type = EmptyByType
    /\ templates_by_tag = EmptyByTag
    /\ current_version = IF constructed THEN v ELSE 0
    /\ memory_high = FALSE
    /\ remote_version = v
    /\ sync_lock = "none"
    /\ lock = "none"
    /\ worker_started = constructed
    /\ mpc = [t \in MAll |-> IF t = Worker \/ constructed THEN "ready" ELSE "start"]
    /\ mloc = [t \in MAll |-> NoLoc]
    /\ mresp = [t \in MAll |-> NoMResp]
    /\ healed = {}
    /\ loadedAt = IF constructed THEN v ELSE 0

\* A get_cache_version that never reads the counter.
get_cache_version_unread(ok) == 1

\* get_cache_version: the counter, or 1 when the key is absent or the read fails.
get_cache_version(ok) == IF ok THEN remote_version ELSE 1

\* The orders in which the database can return the rows S for
\* order_by('-version'), or, with byVersion FALSE, in any order.
Orders(d, S, byVersion) ==
    {s \in [1..Cardinality(S) -> S] :
        /\ \A i, j \in 1..Cardinality(S) : i # j => s[i] # s[j]
        /\ byVersion =>
              \A i, j \in 1..Cardinality(S) :
                  i < j => d[s[i]].version >= d[s[j]].version}

ActiveRows(d) == {i \in Ids(d) : d[i].status = "active"}

\* new_cache[cache_key] = template_data, in iteration order: the last one stays.
IndexOf(recs) ==
    [k \in MKeys |->
        LET idx == {i \in 1..Len(recs) : RecKey(recs[i]) = k}
        IN  IF idx = {} THEN NoEntry
            ELSE recs[CHOOSE i \in idx : \A j \in idx : j <= i]]

ByTypeOf(recs) ==
    [ty \in Types |-> SelectSeq(recs, LAMBDA e : e.type = ty)]

ByTagOf(recs) ==
    [tg \in Tags |-> SelectSeq(recs, LAMBDA e : tg \in e.tags)]

\* The by-key index after the self-heal insert of get_template.
SelfHealSkipped(m, key, e) == m

SelfHeal(m, key, e) ==
    [m EXCEPT ![key] = e]

\* __new__: the double-checked creation of the singleton under _lock.
MNew(t) ==
    /\ mpc[t] = "start"
    /\ instance \/ lock = "none"
    /\ instance' = TRUE
    /\ initialized' = IF instance THEN initialized ELSE FALSE
    /\ mpc' = [mpc EXCEPT ![t] = "init_check"]
    /\ UNCHANGED <<templates, templates_by_type, templates_by_tag, current_version,
                   memory_high, remote_version, sync_lock, lock, worker_started,
                   mloc, mresp, healed, loadedAt, storeVars, breakerVars, renderVars, textVars>>

\* __init__, lines 45-46: `if self._initialized: return`.
MInitCheck(t) ==
    /\ mpc[t] = "init_check"
    /\ mpc' = [mpc EXCEPT ![t] = IF initialized THEN "ready" ELSE "init_reset"]
    /\ UNCHANGED <<instance, initialized, templates, templates_by_type,
                   templates_by_tag, current_version, memory_high, remote_version,
                   sync_lock, lock, worker_started, mloc, mresp, healed,
                   loadedAt, storeVars, breakerVars, renderVars, textVars>>

\* __init__, lines 49-55: the empty indexes.
MInitReset(t) ==
    /\ mpc[t] = "init_reset"
    /\ templates' = EmptyIndex
    /\ templates_by_type' = EmptyByType
    /\ templates_by_tag' = EmptyByTag
    /\ current_version' = 0
    /\ memory_high' = FALSE
    /\ healed' = {}
    /\ loadedAt' = 0
    /\ mpc' = [mpc EXCEPT ![t] = "init_version"]
    /\ UNCHANGED <<instance, initialized, remote_version, sync_lock, lock,
                   worker_started, mloc, mresp, storeVars, breakerVars, renderVars, textVars>>

\* _initialize_cache, line 76, on its way to _load_templates_from_db.
MInitVersion(t, ok) ==
    /\ mpc[t] = "init_version"
    /\ current_version' = get_cache_version(ok)
    /\ mloc' = [mloc EXCEPT ![t] = [NoLoc EXCEPT !.op = "construct"]]
    /\ mpc' = [mpc EXCEPT ![t] = "load_read"]
    /\ UNCHANGED <<instance, initialized, templates, templates_by_type,
                   templates_by_tag, memory_high, remote_version, sync_lock, lock,
                   worker_started, mresp, healed, loadedAt, storeVars, breakerVars, renderVars, textVars>>

\* total_bytes of a load is over the limit of _monitor_memory_usage: the
\* templates of the table are of a size that two of them are, one is not.
OverLimit(recs) == Len(recs) >= 2

\* _load_templates_from_db, lines 99-122: the query and the new indexes built
\* from its rows.
MLoadRead(t, s) ==
    /\ mpc[t] = "load_read"
    /\ s \in Orders(db, ActiveRows(db), TRUE)
    /\ mloc' = [mloc EXCEPT ![t].new = [i \in 1..Len(s) |-> MirrorSerialize(db[s[i]])],
                            ![t].high = OverLimit(s),
                            ![t].at = remote_version]
    /\ mpc' = [mpc EXCEPT ![t] = "swap_templates"]
    /\ UNCHANGED <<instance, initialized, templates, templates_by_type,
                   templates_by_tag, current_version, memory_high, remote_version,
                   sync_lock, lock, worker_started, mresp, healed,
                   loadedAt, storeVars, breakerVars, renderVars, textVars>>

\* _load_templates_from_db, lines 125-126: `with self._lock`, the by-key index.
MSwapTemplates(t) ==
    /\ mpc[t] = "swap_templates"
    /\ lock = "none"
    /\ lock' = t
    /\ templates' = IndexOf(mloc[t].new)
    /\ healed' = {}
    /\ loadedAt' = mloc[t].at
    /\ mpc' = [mpc EXCEPT ![t] = "swap_by_type"]
    /\ UNCHANGED <<instance, initialized, templates_by_type, templates_by_tag,
                   current_version, memory_high, remote_version, sync_lock,
                   worker_started, mloc, mresp, storeVars, breakerVars, renderVars, textVars>>

\* line 127
MSwapByType(t) ==
    /\ mpc[t] = "swap_by_type"
    /\ templates_by_type' = ByTypeOf(mloc[t].new)
    /\ mpc' = [mpc EXCEPT ![t] = "swap_by_tag"]
    /\ UNCHANGED <<instance, initialized, templates, templates_by_tag,
                   current_version, memory_high, remote_version, sync_lock, lock,
                   worker_started, mloc, mresp, healed, loadedAt, storeVars, breakerVars, renderVars, textVars>>

\* lines 128-129, and the release of _lock.
MSwapByTag(t) ==
    /\ mpc[t] = "swap_by_tag"
    /\ templates_by_tag' = ByTagOf(mloc[t].new)
    /\ memory_high' = mloc[t].high
    /\ lock' = "none"
    /\ mpc' = [mpc EXCEPT ![t] =
                  IF mloc[t].op = "construct" THEN "init_done" ELSE "sync_finish"]
    /\ UNCHANGED <<instance, initialized, templates, templates_by_type,
                   current_version, remote_version, sync_lock, worker_started,
                   mloc, mresp, healed, loadedAt, storeVars, breakerVars, renderVars, textVars>>

\* __init__, lines 64-68: the background thread, then _initialized.
MInitDone(t) ==
    /\ mpc[t] = "init_done"
    /\ worker_started' = TRUE
    /\ initialized' = TRUE
    /\ mpc' = [mpc EXCEPT ![t] = "ready"]
    /\ mloc' = [mloc EXCEPT ![t] = NoLoc]
    /\ UNCHANGED <<instance, templates, templates_by_type, templates_by_tag,
                   current_version, memory_high, remote_version, sync_lock, lock,
                   mresp, healed, loadedAt, storeVars, breakerVars, renderVars, textVars>>

\* sync_from_db(force), called by a user of the mirror.
MSyncStart(t, force) ==
    /\ mpc[t] = "ready"
    /\ mloc' = [mloc EXCEPT ![t] = [NoLoc EXCEPT !.op = "sync", !.force = force,
                                                 !.during = ReloadRunning]]
    /\ mpc' = [mpc EXCEPT ![t] = "sync_acquire"]
    /\ UNCHANGED <<instance, initialized, templates, templates_by_type,
                   templates_by_tag, current_version, memory_high, remote_version,
                   sync_lock, lock, worker_started, mresp, healed,
                   loadedAt, storeVars, breakerVars, renderVars, textVars>>

\* invalidate(): increment_cache_version, whose failure is swallowed, then
\* sync_from_db(force=True).
MInvalidate(t, ok) ==
    /\ mpc[t] = "ready"
    /\ ok => remote_version < MaxVersion
    /\ remote_version' = IF ok THEN remote_version + 1 ELSE remote_version
    /\ mloc' = [mloc EXCEPT ![t] = [NoLoc EXCEPT !.op = "sync", !.force = TRUE,
                                                 !.during = ReloadRunning]]
    /\ mpc' = [mpc EXCEPT ![t] = "sync_acquire"]
    /\ UNCHANGED <<instance, initialized, templates, templates_by_type,
                   templates_by_tag, current_version, memory_high, sync_lock, lock,
                   worker_started, mresp, healed, loadedAt, storeVars, breakerVars, renderVars, textVars>>

\* sync_worker, lines 201-204: the version check of a cycle.
WorkerWake(ok) ==
    /\ worker_started
    /\ mpc[Worker] = "ready"
    /\ IF get_cache_version(ok) # current_version
       THEN /\ mloc' = [mloc EXCEPT ![Worker] = [NoLoc EXCEPT !.op = "sync",
                                                           !.during = ReloadRunning]]
            /\ mpc' = [mpc EXCEPT ![Worker] = "sync_acquire"]
       ELSE /\ mpc' = [mpc EXCEPT ![Worker] = "monitor"]
            /\ UNCHANGED mloc
    /\ UNCHANGED <<instance, initialized, templates, templates_by_type,
                   templates_by_tag, current_version, memory_high, remote_version,
                   sync_lock, lock, worker_started, mresp, healed,
                   loadedAt, storeVars, breakerVars, renderVars, textVars>>

\* sync_from_db, line 290: `with self._sync_lock`.
MSyncAcquire(t) ==
    /\ mpc[t] = "sync_acquire"
    /\ sync_lock = "none"
    /\ sync_lock' = t
    /\ mpc' = [mpc EXCEPT ![t] = "sync_version"]
    /\ UNCHANGED <<instance, initialized, templates, templates_by_type,
                   templates_by_tag, current_version, memory_high, remote_version,
                   lock, worker_started, mloc, mresp, healed,
                   loadedAt, storeVars, breakerVars, renderVars, textVars>>

\* The thread's next position when its sync_from_db returns.
AfterSync(t) == IF t = Worker THEN "monitor" ELSE "ready"

\* sync_from_db, lines 293-298: the version read and the skip.
MSyncVersion(t, ok) ==
    /\ mpc[t] = "sync_version"
    /\ IF ~mloc[t].force /\ get_cache_version(ok) = current_version
       THEN /\ sync_lock' = "none"
            /\ mpc' = [mpc EXCEPT ![t] = AfterSync(t)]
            /\ mloc' = [mloc EXCEPT ![t] = NoLoc]
       ELSE /\ mloc' = [mloc EXCEPT ![t].rv = get_cache_version(ok)]
            /\ mpc' = [mpc EXCEPT ![t] = "load_read"]
            /\ UNCHANGED sync_lock
    /\ UNCHANGED <<instance, initialized, templates, templates_by_type,
                   templates_by_tag, current_version, memory_high, remote_version,
                   lock, worker_started, mresp, healed, loadedAt, storeVars, breakerVars, renderVars, textVars>>

\* sync_from_db, lines 305-306, and the release of _sync_lock.
MSyncFinish(t) ==
    /\ mpc[t] = "sync_finish"
    /\ current_version' = mloc[t].rv
    /\ sync_lock' = "none"
    /\ mpc' = [mpc EXCEPT ![t] = AfterSync(t)]
    /\ mloc' = [mloc EXCEPT ![t] = NoLoc]
    /\ UNCHANGED <<instance, initialized, templates, templates_by_type,
                   templates_by_tag, memory_high, remote_version, lock,
                   worker_started, mresp, healed, loadedAt, storeVars, breakerVars, renderVars, textVars>>

\* _cleanup_least_used_templates: the order by last_used_at / created_at is
\* the order s; keep_count = int(len * 0.8); sorted_templates[-keep_count:],
\* which is the whole list when keep_count is 0.
Kept(s) ==
    LET n == Len(s)
        keep_count == (n * 8) \div 10
    IN  IF keep_count = 0 THEN s ELSE SubSeq(s, n - keep_count + 1, n)

Cached(m) == {k \in MKeys : ~IsNone(m[k])}

\* _monitor_memory_usage at the end of a cycle of the worker.
WorkerMonitor(s) ==
    /\ mpc[Worker] = "monitor"
    /\ IF memory_high
       THEN /\ lock = "none"
            /\ s \in {q \in [1..Cardinality(Cached(templates)) -> Cached(templates)] :
                        \A i, j \in DOMAIN q : i # j => q[i] # q[j]}
            /\ LET kept == Kept([i \in 1..Len(s) |-> templates[s[i]]])
               IN  /\ templates' = IndexOf(kept)
                   /\ templates_by_type' = ByTypeOf(kept)
                   /\ templates_by_tag' = ByTagOf(kept)
                   /\ healed' = healed \cap Cached(IndexOf(kept))
       ELSE /\ s = <<>>
            /\ UNCHANGED <<templates, templates_by_type, templates_by_tag, healed>>
    /\ mpc' = [mpc EXCEPT ![Worker] = "ready"]
    /\ mloc' = [mloc EXCEPT ![Worker] = NoLoc]
    /\ UNCHANGED <<instance, initialized, current_version, memory_high,
                   remote_version, sync_lock, lock, worker_started, mresp,
                   loadedAt, storeVars, breakerVars, renderVars, textVars>>

\* get_template(code, language) called by a user of the mirror.
MGetStart(t, language) ==
    /\ mpc[t] = "ready"
    /\ mloc' = [mloc EXCEPT ![t] = [NoLoc EXCEPT !.op = "get", !.language = language]]
    /\ mpc' = [mpc EXCEPT ![t] = "get_lookup"]
    /\ UNCHANGED <<instance, initialized, templates, templates_by_type,
                   templates_by_tag, current_version, memory_high, remote_version,
                   sync_lock, lock, worker_started, mresp, healed,
                   loadedAt, storeVars, breakerVars, renderVars, textVars>>

\* get_template, lines 319-325: the lookup in the by-key index, without a lock.
MGetLookup(t) ==
    LET key == MirrorKey("c", mloc[t].language)
    IN  /\ mpc[t] = "get_lookup"
        /\ IF ~IsNone(templates[key])
           THEN /\ mresp' = [mresp EXCEPT ![t] =
                       [kind |-> "get", key |-> key, hit |-> TRUE,
                        healed |-> key \in healed, value |-> templates[key]]]
                /\ mpc' = [mpc EXCEPT ![t] = "done"]
                /\ UNCHANGED mloc
           ELSE /\ mloc' = [mloc EXCEPT ![t].healed = key \in healed]
                /\ mpc' = [mpc EXCEPT ![t] = "get_db"]
                /\ UNCHANGED mresp
        /\ UNCHANGED <<instance, initialized, templates, templates_by_type,
                       templates_by_tag, current_version, memory_high,
                       remote_version, sync_lock, lock, worker_started, healed,
                       loadedAt, storeVars, breakerVars, renderVars, textVars>>

\* get_template, lines 329-334 and 352-360: the query for the active default
\* of the key, the English fallback, the answer None.
\* Template.objects.filter(code, language, status=active, is_default=True)
\* .first(): Meta.ordering is ['-version'], so the first row is one of the
\* highest version; among rows of equal version the order is the database's.
first_active_default(d, code, language) ==
    LET matching == {i \in Ids(d) : /\ d[i].code = code /\ d[i].language = language
                                    /\ d[i].status = "active" /\ d[i].is_default}
    IN  {i \in matching : \A j \in matching : d[j].version <= d[i].version}

MGetDb(t, r) ==
    LET language == mloc[t].language
        key == MirrorKey("c", language)
        found == first_active_default(db, "c", language)
    IN  /\ mpc[t] = "get_db"
        /\ IF found # {}
           THEN /\ r \in found
                /\ mloc' = [mloc EXCEPT ![t].row = db[r]]
                /\ mpc' = [mpc EXCEPT ![t] = "get_insert"]
                /\ UNCHANGED mresp
           ELSE /\ r = 0
                /\ IF language # "en"
                   THEN /\ mloc' = [mloc EXCEPT ![t].language = "en"]
                        /\ mpc' = [mpc EXCEPT ![t] = "get_lookup"]
                        /\ UNCHANGED mresp
                   ELSE /\ mresp' = [mresp EXCEPT ![t] =
                               [kind |-> "get", key |-> key, hit |-> FALSE,
                                healed |-> mloc[t].healed, value |-> NoEntry]]
                        /\ mpc' = [mpc EXCEPT ![t] = "done"]
                        /\ UNCHANGED mloc
        /\ UNCHANGED <<instance, initialized, templates, templates_by_type,
                       templates_by_tag, current_version, memory_high,
                       remote_version, sync_lock, lock, worker_started, healed,
                       loadedAt, storeVars, breakerVars, renderVars, textVars>>

\* get_template, lines 338-344: the self-heal insert under _lock.
MGetInsert(t) ==
    LET key == MirrorKey("c", mloc[t].language)
        e == MirrorSerialize(mloc[t].row)
    IN  /\ mpc[t] = "get_insert"
        /\ lock = "none"
        /\ Len(templates_by_type[e.type]) < MaxList
        /\ templates' = SelfHeal(templates, key, e)
        /\ templates_by_type' = [templates_by_type EXCEPT ![e.type] = Append(@, e)]
        /\ templates_by_tag' =
              [tg \in Tags |-> IF tg \in e.tags THEN Append(templates_by_tag[tg], e)
                               ELSE templates_by_tag[tg]]
        /\ healed' = healed \cup {key}
        /\ mresp' = [mresp EXCEPT ![t] =
               [kind |-> "get", key |-> key, hit |-> FALSE,
                healed |-> mloc[t].healed, value |-> e]]
        /\ mpc' = [mpc EXCEPT ![t] = "done"]
        /\ UNCHANGED <<instance, initialized, current_version, memory_high,
                       remote_version, sync_lock, lock, worker_started, mloc,
                       loadedAt, storeVars, breakerVars, renderVars, textVars>>

\* invalidate_template(code, language): the by-key entry is deleted under _lock.
MInvalidateTemplate(t, language) ==
    LET key == MirrorKey("c", language)
    IN  /\ mpc[t] = "ready"
        /\ lock = "none"
        /\ templates' = [templates EXCEPT ![key] = NoEntry]
        /\ healed' = healed \ {key}
        /\ UNCHANGED <<instance, initialized, templates_by_type, templates_by_tag,
                       current_version, memory_high, remote_version, sync_lock,
                       lock, worker_started, mpc, mloc, mresp,
                       loadedAt, storeVars, breakerVars, renderVars, textVars>>

\* get_stats, lines 391-392: 'templates_cached': len(self.templates), read
\* without a lock.
MStatsKeys(t) ==
    /\ mpc[t] = "ready"
    /\ mresp' = [mresp EXCEPT ![t] =
           [NoMResp EXCEPT !.kind = "reading",
               !.value = [templates_cached |-> Cardinality(Cached(templates))]]]
    /\ mpc' = [mpc EXCEPT ![t] = "stats_types"]
    /\ UNCHANGED <<instance, initialized, templates, templates_by_type,
                   templates_by_tag, current_version, memory_high, remote_version,
                   sync_lock, lock, worker_started, mloc, healed,
                   loadedAt, storeVars, breakerVars, renderVars, textVars>>

\* get_stats, lines 393-396: 'types': the length of every by-type list.
MStatsTypes(t) ==
    /\ mpc[t] = "stats_types"
    /\ mresp' = [mresp EXCEPT ![t].value =
           [templates_cached |-> mresp[t].value.templates_cached,
            types |-> [ty \in Types |-> Len(templates_by_type[ty])]]]
    /\ mpc' = [mpc EXCEPT ![t] = "stats_tags"]
    /\ UNCHANGED <<instance, initialized, templates, templates_by_type,
                   templates_by_tag, current_version, memory_high, remote_version,
                   sync_lock, lock, worker_started, mloc, healed,
                   loadedAt, storeVars, breakerVars, renderVars, textVars>>

\* get_stats, lines 397-406: 'tags': the length of every by-tag list, and the
\* return of the statistics.
MStatsTags(t) ==
    /\ mpc[t] = "stats_tags"
    /\ mresp' = [mresp EXCEPT ![t].kind = "stats",
                              ![t].value =
           [templates_cached |-> mresp[t].value.templates_cached,
            types |-> mresp[t].value.types,
            tags |-> [tg \in Tags |-> Len(templates_by_tag[tg])]]]
    /\ mpc' = [mpc EXCEPT ![t] = "done"]
    /\ UNCHANGED <<instance, initialized, templates, templates_by_type,
                   templates_by_tag, current_version, memory_high, remote_version,
                   sync_lock, lock, worker_started, mloc, healed,
                   loadedAt, storeVars, breakerVars, renderVars, textVars>>

\* The get_template of thread t has returned.
MReturn(t) ==
    /\ mpc[t] = "done"
    /\ mpc' = [mpc EXCEPT ![t] = "ready"]
    /\ mloc' = [mloc EXCEPT ![t] = NoLoc]
    /\ mresp' = [mresp EXCEPT ![t] = NoMResp]
    /\ UNCHANGED <<instance, initialized, templates, templates_by_type,
                   templates_by_tag, current_version, memory_high, remote_version,
                   sync_lock, lock, worker_started, healed, loadedAt, storeVars, breakerVars, renderVars, textVars>>

\* A publish committed by a request handler: Template.activate on row i.
StorePublish(i) ==
    LET d1 == ClearDefaults(db, OtherDefaults(db, db[i]))
        d2 == [d1 EXCEPT ![i] = Activated(db[i])]
    IN  /\ db[i].status # "active"
        /\ UniqueOk(d1) /\ UniqueOk(d2)
        /\ db' = d2
        /\ UNCHANGED <<cache, pc, inst, req, pend, data, resp, targets, rowcap,
                       breakerVars, mirrorVars, renderVars, textVars>>

\* The mirror in use: thread G calls get_template and invalidate_template,
\* thread S calls sync_from_db and invalidate, the background worker runs, and
\* other handlers commit publishes.
NextMirrorOf(G, S) ==
    \/ \E force \in BOOLEAN : MSyncStart(S, force)
    \/ \E ok \in BOOLEAN : MInvalidate(S, ok)
    \/ \E ok \in BOOLEAN : WorkerWake(ok)
    \/ \E t \in {S, Worker} : MSyncAcquire(t)
    \/ \E t \in {S, Worker}, ok \in BOOLEAN : MSyncVersion(t, ok)
    \/ \E t \in {S, Worker}, s \in Orders(db, ActiveRows(db), TRUE) :
          MLoadRead(t, s)
    \/ \E t \in {S, Worker} : MSwapTemplates(t)
    \/ \E t \in {S, Worker} : MSwapByType(t)
    \/ \E t \in {S, Worker} : MSwapByTag(t)
    \/ \E t \in {S, Worker} : MSyncFinish(t)
    \/ \E s \in UNION {[1..n -> MKeys] : n \in 0..Cardinality(MKeys)} :
          WorkerMonitor(s)
    \/ \E l \in MLangs : MGetStart(G, l)
    \/ MGetLookup(G)
    \/ \E r \in 0..Len(db) : MGetDb(G, r)
    \/ MGetInsert(G)
    \/ \E l \in MLangs : MInvalidateTemplate(G, l)
    \/ MReturn(G)
    \/ \E i \in Ids(db) : StorePublish(i)

NextMirror == NextMirrorOf("c1", "c2")

\* Readers of the indexes: thread G calls get_stats while thread S calls
\* sync_from_db and invalidate, the background worker runs and evicts, and
\* other handlers commit publishes.
NextReadersOf(G, S) ==
    \/ \E force \in BOOLEAN : MSyncStart(S, force)
    \/ \E ok \in BOOLEAN : MInvalidate(S, ok)
    \/ \E ok \in BOOLEAN : WorkerWake(ok)
    \/ \E t \in {S, Worker} : MSyncAcquire(t)
    \/ \E t \in {S, Worker}, ok \in BOOLEAN : MSyncVersion(t, ok)
    \/ \E t \in {S, Worker}, s \in Orders(db, ActiveRows(db), TRUE) :
          MLoadRead(t, s)
    \/ \E t \in {S, Worker} : MSwapTemplates(t)
    \/ \E t \in {S, Worker} : MSwapByType(t)
    \/ \E t \in {S, Worker} : MSwapByTag(t)
    \/ \E t \in {S, Worker} : MSyncFinish(t)
    \/ \E s \in UNION {[1..n -> MKeys] : n \in 0..Cardinality(MKeys)} :
          WorkerMonitor(s)
    \/ MStatsKeys(G)
    \/ MStatsTypes(G)
    \/ MStatsTags(G)
    \/ MReturn(G)
    \/ \E i \in Ids(db) : StorePublish(i)

NextReaders == NextReadersOf("c1", "c2")

\* The mirror of one process while the remote store and the authoritative
\* store are reachable (every read of the counter succeeds): the background
\* worker, a thread S that calls sync_from_db and invalidate, and the publishes
\* other handlers commit.
NextConvergeOf(S) ==
    \/ \E force \in BOOLEAN : MSyncStart(S, force)
    \/ MInvalidate(S, TRUE)
    \/ WorkerWake(TRUE)
    \/ \E t \in {S, Worker} : MSyncAcquire(t)
    \/ \E t \in {S, Worker} : MSyncVersion(t, TRUE)
    \/ \E t \in {S, Worker}, s \in Orders(db, ActiveRows(db), TRUE) :
          MLoadRead(t, s)
    \/ \E t \in {S, Worker} : MSwapTemplates(t)
    \/ \E t \in {S, Worker} : MSwapByType(t)
    \/ \E t \in {S, Worker} : MSwapByTag(t)
    \/ \E t \in {S, Worker} : MSyncFinish(t)
    \/ \E s \in UNION {[1..n -> MKeys] : n \in 0..Cardinality(MKeys)} :
          WorkerMonitor(s)
    \/ \E i \in Ids(db) : StorePublish(i)

NextConverge == NextConvergeOf("c2")

\* A thread that is inside sync_from_db goes on: the steps after it has asked
\* for _sync_lock.
Progress(t) ==
    \/ MSyncAcquire(t)
    \/ MSyncVersion(t, TRUE)
    \/ \E s \in Orders(db, ActiveRows(db), TRUE) : MLoadRead(t, s)
    \/ MSwapTemplates(t)
    \/ MSwapByType(t)
    \/ MSwapByTag(t)
    \/ MSyncFinish(t)

\* The cycle of the background worker: `while True` around sleep, the version
\* check and the memory check.
WorkerCycle ==
    \/ WorkerWake(TRUE)
    \/ \E s \in UNION {[1..n -> MKeys] : n \in 0..Cardinality(MKeys)} :
          WorkerMonitor(s)

\* The scheduler is fair to the worker and to a thread inside sync_from_db;
\* nothing obliges a user of the mirror to call it.
FairConverge ==
    /\ WF_vars(WorkerCycle)
    /\ WF_vars(Progress(Worker))
    /\ WF_vars(Progress("c2"))

\* The first use of the mirror: two threads call TemplateCacheManager(), the
\* worker runs as soon as one of them has started it, handlers publish.
NextConstruct ==
    \/ \E t \in MThreads : MNew(t)
    \/ \E t \in MThreads : MInitCheck(t)
    \/ \E t \in MThreads : MInitReset(t)
    \/ \E t \in MThreads, ok \in BOOLEAN : MInitVersion(t, ok)
    \/ \E t \in MAll, s \in Orders(db, ActiveRows(db), TRUE) :
          MLoadRead(t, s)
    \/ \E t \in MAll : MSwapTemplates(t)
    \/ \E t \in MAll : MSwapByType(t)
    \/ \E t \in MAll : MSwapByTag(t)
    \/ \E t \in MThreads : MInitDone(t)
    \/ \E ok \in BOOLEAN : WorkerWake(ok)
    \/ MSyncAcquire(Worker)
    \/ \E ok \in BOOLEAN : MSyncVersion(Worker, ok)
    \/ MSyncFinish(Worker)
    \/ \E s \in UNION {[1..n -> MKeys] : n \in 0..Cardinality(MKeys)} :
          WorkerMonitor(s)
    \/ \E i \in Ids(db) : StorePublish(i)

(***************************************************************************)
(* Specifications                                                          *)
(***************************************************************************)
(***************************************************************************)
(* TemplateRenderer.render_template (renderer.py) under tenacity, its      *)
(* usage log and Template.increment_usage (models.py)                      *)
(***************************************************************************)
RThreads == {"r1", "r2"}

\* The variable names a template refers to and a caller binds.
Names == {"x", "y"}

\* stop=stop_after_attempt(2)
StopAfterAttempt == 2

\* A template: per field, the names its placeholders, conditionals and loops
\* refer to; no name for an empty field.
NoTemplate == [content |-> {}, html_content |-> {}, subject |-> {}]

RTemplates ==
    [content : SUBSET Names, html_content : SUBSET Names, subject : SUBSET Names]

NoCall == [pc |-> "idle", variables |-> {}, attempt |-> 0, causes |-> <<>>,
           names |-> {}, sunk |-> <<>>, seen |-> 0, outcome |-> "none",
           rendered |-> FALSE]

InitRender(tpl) ==
    /\ template = tpl
    /\ usage_count = 0
    /\ usage_log = <<>>
    /\ rnd = [t \in RThreads |-> NoCall]

\* render: the missing_vars it returns, list(set(...)) of the names referred to
\* and not bound.
render(template_content, variables) == template_content \ variables

\* The body of the try block, lines 62-90: the exception it raises ("none"
\* when it reaches the return) and the names in the exception's message.
\* late: the clock check of line 64 finds the limit exceeded; fault: rendering
\* the content raises something else.
TryBody(tpl, variables, late, fault) ==
    IF late THEN [cause |-> "TimeoutError", names |-> {}]
    ELSE IF fault THEN [cause |-> "Exception", names |-> {}]
    ELSE IF render(tpl.content, variables) # {}
         THEN [cause |-> "VariableMissingError",
               names |-> render(tpl.content, variables)]
    ELSE IF render(tpl.html_content, variables) # {}
         THEN [cause |-> "VariableMissingError",
               names |-> render(tpl.html_content, variables)]
    ELSE IF render(tpl.subject, variables) # {}
         THEN [cause |-> "VariableMissingError",
               names |-> render(tpl.subject, variables)]
    ELSE [cause |-> "none", names |-> {}]

\* A classification that knows one kind of failure only.
ResultOfUnclassified(cause) ==
    IF cause = "none" THEN "success" ELSE "render_error"

\* Lines 118-122: the result logged for an exception; line 99 for a success.
ResultOf(cause) ==
    IF cause = "none" THEN "success"
    ELSE IF cause = "VariableMissingError" THEN "variable_missing"
    ELSE IF cause = "TimeoutError" THEN "timeout"
    ELSE "render_error"

\* Line 148: raise RenderError(...) from e, whatever e is.
Raised(cause) == "RenderError"

\* retry=retry_if_exception(lambda e: isinstance(e, TimeoutError))
retry_if_exception(raised) == raised = "TimeoutError"

\* An increment computed from the usage_count the instance was loaded with.
increment_usage_instance(stored, loaded) == loaded + 1

\* Template.increment_usage: UPDATE ... SET usage_count = usage_count + 1
increment_usage(stored, loaded) == stored + 1

Last(s) == s[Len(s)]

\* A caller enters render_template with its variables; the template instance
\* it passes was loaded just before.
RenderCall(t, variables) ==
    /\ rnd[t].pc = "idle"
    /\ Len(usage_log) < MaxLog
    /\ rnd' = [rnd EXCEPT ![t] = [NoCall EXCEPT !.pc = "try", !.variables = variables,
                                               !.attempt = 1, !.seen = usage_count]]
    /\ UNCHANGED <<template, usage_count, usage_log, storeVars, breakerVars, mirrorVars, textVars>>

\* One attempt, up to the call of _log_render.
RenderTry(t, late, fault) ==
    LET b == TryBody(template, rnd[t].variables, late, fault)
    IN  /\ rnd[t].pc = "try"
        /\ rnd' = [rnd EXCEPT ![t].pc = "log",
                              ![t].causes = Append(@, b.cause),
                              ![t].names = b.names,
                              ![t].sunk = <<>>,
                              ![t].rendered = (b.cause = "none")]
        /\ UNCHANGED <<template, usage_count, usage_log, storeVars, breakerVars, mirrorVars, textVars>>

\* _log_render, one transaction: the row of TemplateUsageLog and, for a
\* success, increment_usage. A failure of the store is logged and nothing is
\* written.
LogRender(t, ok) ==
    LET cause == Last(rnd[t].causes)
        result == ResultOf(cause)
    IN  /\ rnd[t].pc = "log"
        /\ rnd' = [rnd EXCEPT ![t].pc = IF cause = "none" THEN "return" ELSE "raise",
                              ![t].sunk = Append(@, result)]
        /\ usage_log' = IF ok THEN Append(usage_log, [attempt |-> rnd[t].attempt,
                                                      result |-> result])
                        ELSE usage_log
        /\ usage_count' = IF ok /\ result = "success"
                          THEN increment_usage(usage_count, rnd[t].seen)
                          ELSE usage_count
        /\ UNCHANGED <<template, storeVars, breakerVars, mirrorVars, textVars>>

\* _log_render raises outside its try block: transaction.atomic, which wraps
\* the whole method, cannot open its transaction (the store is unreachable) or
\* cannot commit it. Nothing is written. Called from the try block (line 92),
\* the exception enters the except branch, which calls _log_render again;
\* called from the except branch (line 125), it leaves render_template.
LogRenderEscapes(t) ==
    LET cause == Last(rnd[t].causes)
    IN  /\ rnd[t].pc = "log"
        /\ rnd' = IF cause = "none"
                  THEN [rnd EXCEPT ![t].causes = [@ EXCEPT ![Len(@)] = "Exception"],
                                   ![t].sunk = Append(@, ResultOf(cause))]
                  ELSE [rnd EXCEPT ![t].pc = "done",
                                   ![t].sunk = Append(@, ResultOf(cause)),
                                   ![t].outcome = "DatabaseError"]
        /\ UNCHANGED <<template, usage_count, usage_log, storeVars, breakerVars, mirrorVars, textVars>>

\* The end of the except branch, and tenacity around the call: another attempt
\* when the exception that left the function is to be retried and attempts
\* remain, RetryError when none remain, else the exception itself.
RenderRaise(t) ==
    LET raised == Raised(Last(rnd[t].causes))
    IN  /\ rnd[t].pc = "raise"
        /\ rnd' = IF retry_if_exception(raised) /\ rnd[t].attempt < StopAfterAttempt
                  THEN [rnd EXCEPT ![t].pc = "try", ![t].attempt = @ + 1]
                  ELSE [rnd EXCEPT ![t].pc = "done",
                                   ![t].outcome = IF retry_if_exception(raised)
                                                  THEN "RetryError" ELSE raised]
        /\ UNCHANGED <<template, usage_count, usage_log, storeVars, breakerVars, mirrorVars, textVars>>

\* Lines 105-109: the rendered fields are returned.
RenderReturn(t) ==
    /\ rnd[t].pc = "return"
    /\ rnd' = [rnd EXCEPT ![t].pc = "done", ![t].outcome = "ok"]
    /\ UNCHANGED <<template, usage_count, usage_log, storeVars, breakerVars, mirrorVars, textVars>>

\* The caller has the result.
RenderDone(t) ==
    /\ rnd[t].pc = "done"
    /\ rnd' = [rnd EXCEPT ![t] = NoCall]
    /\ UNCHANGED <<template, usage_count, usage_log, storeVars, breakerVars, mirrorVars, textVars>>

\* render_template called by the threads T; oks: how the writes of the usage
\* log can end.
NextRenderOf(T, oks) ==
    \/ \E t \in T, variables \in SUBSET Names : RenderCall(t, variables)
    \/ \E t \in T, late \in BOOLEAN, fault \in BOOLEAN : RenderTry(t, late, fault)
    \/ \E t \in T, ok \in oks : LogRender(t, ok)
    \/ \E t \in T : RenderRaise(t)
    \/ \E t \in T : RenderReturn(t)
    \/ \E t \in T : RenderDone(t)

(***************************************************************************)
(* TemplateRenderer.render (renderer.py): conditionals, loops, variables   *)
(***************************************************************************)
\* A text is a sequence of tokens: a run of literal characters, or one of the
\* tags the three patterns match. A string is the sequence of its characters.
Lit(s) == [k |-> "lit", n |-> "", s |-> s]

Var(n) == [k |-> "var", n |-> n, s |-> <<>>]

If(n) == [k |-> "if", n |-> n, s |-> <<>>]

EndIf == [k |-> "endif", n |-> "", s |-> <<>>]

Each(n) == [k |-> "each", n |-> n, s |-> <<>>]

EndEach == [k |-> "endeach", n |-> "", s |-> <<>>]

\* The values a variable is bound to: str, None, bool, int, list.
StrV(s) == [t |-> "str", s |-> s, n |-> 0, items |-> <<>>]

NoneV == [t |-> "none", s |-> <<>>, n |-> 0, items |-> <<>>]

BoolV(b) == [t |-> "bool", s |-> <<>>, n |-> IF b THEN 1 ELSE 0, items |-> <<>>]

IntV(n) == [t |-> "int", s |-> <<>>, n |-> n, items |-> <<>>]

ListV(items) == [t |-> "list", s |-> <<>>, n |-> 0, items |-> items]

\* bool(value)
Truthy(val) ==
    IF val.t = "str" THEN val.s # <<>>
    ELSE IF val.t = "none" THEN FALSE
    ELSE IF val.t = "list" THEN val.items # <<>>
    ELSE val.n # 0

RECURSIVE Joined(_)
\* The characters of a sequence of strings, one after the other.
Joined(ss) == IF ss = <<>> THEN <<>> ELSE ss[1] \o Joined(Tail(ss))

RECURSIVE ReprItems(_)
\* repr of the elements of a list of str, separated by ", ".
ReprItems(items) ==
    IF items = <<>> THEN <<>>
    ELSE <<"'">> \o items[1].s \o <<"'">>
         \o (IF Len(items) > 1 THEN <<",", " ">> ELSE <<>>) \o ReprItems(Tail(items))

\* str(value), of 0 and 1 among the integers.
Str(val) ==
    IF val.t = "str" THEN val.s
    ELSE IF val.t = "none" THEN <<"N", "o", "n", "e">>
    ELSE IF val.t = "bool"
         THEN IF val.n = 1 THEN <<"T", "r", "u", "e">> ELSE <<"F", "a", "l", "s", "e">>
    ELSE IF val.t = "int" THEN IF val.n = 0 THEN <<"0">> ELSE <<"1">>
    ELSE <<"[">> \o ReprItems(val.items) \o <<"]">>

\* html.escape(s, quote=True), character by character.
EscapeChar(c) ==
    IF c = "&" THEN <<"&", "a", "m", "p", ";">>
    ELSE IF c = "<" THEN <<"&", "l", "t", ";">>
    ELSE IF c = ">" THEN <<"&", "g", "t", ";">>
    ELSE IF c = "\"" THEN <<"&", "q", "u", "o", "t", ";">>
    ELSE IF c = "'" THEN <<"&", "#", "x", "2", "7", ";">>
    ELSE <<c>>

html_escape(s) == Joined([i \in 1..Len(s) |-> EscapeChar(s[i])])

\* An html.escape that leaves the angle brackets.
SubstitutedUnescaped(val, escape_html) ==
    IF val.t = "none" THEN <<>> ELSE Str(val)

\* _process_variables, lines 254-264: the text put in place of a bound name.
Substituted(val, escape_html) ==
    LET value == IF val.t = "none" THEN <<>> ELSE Str(val)
    IN  IF escape_html THEN html_escape(value) ELSE value

\* A substitution that blanks the placeholders of unbound names.
UnsubstitutedBlanked(token) == Lit(<<>>)

\* _process_variables, lines 265-266: the placeholder of an unbound name.
Unsubstituted(token) == token

\* _process_variables(content, variables, escape_html)
_process_variables(content, variables, escape_html) ==
    [text |-> [i \in 1..Len(content) |->
                  IF content[i].k = "var"
                  THEN IF content[i].n \in DOMAIN variables
                       THEN Lit(Substituted(variables[content[i].n], escape_html))
                       ELSE Unsubstituted(content[i])
                  ELSE content[i]],
     missing |-> {content[i].n : i \in {j \in 1..Len(content) :
                      content[j].k = "var" /\ content[j].n \notin DOMAIN variables}},
     error |-> "none"]

\* The first closing tag after the opening tag at i, 0 when there is none:
\* (.*?) takes the shortest block.
FirstClose(content, i, closing) ==
    LET js == {j \in (i + 1)..Len(content) : content[j].k = closing}
    IN  IF js = {} THEN 0 ELSE CHOOSE j \in js : \A h \in js : j <= h

\* A test that looks at the string form of the value only.
CondKeptByString(var_value) ==
    Str(var_value) \notin {<<>>, <<"f", "a", "l", "s", "e">>, <<"0">>}

\* Line 196: var_value and var_value not in ['false', '0', '']
CondKept(var_value) ==
    /\ Truthy(var_value)
    /\ ~(var_value.t = "str"
         /\ var_value.s \in {<<"f", "a", "l", "s", "e">>, <<"0">>, <<>>})

RECURSIVE _process_conditionals(_, _, _)
\* _process_conditionals, on the text from token i on: CONDITIONAL_PATTERN.sub
\* replaces the matches from left to right and does not look into what it
\* has replaced.
_process_conditionals(content, i, variables) ==
    IF i > Len(content) THEN [text |-> <<>>, missing |-> {}, error |-> "none"]
    ELSE IF content[i].k = "if" /\ FirstClose(content, i, "endif") # 0
    THEN LET j == FirstClose(content, i, "endif")
             rest == _process_conditionals(content, j + 1, variables)
             var_name == content[i].n
         IN  IF var_name \in DOMAIN variables
             THEN [rest EXCEPT !.text =
                      (IF CondKept(variables[var_name])
                       THEN SubSeq(content, i + 1, j - 1) ELSE <<>>) \o @]
             ELSE [rest EXCEPT !.missing = @ \cup {var_name}]
    ELSE LET rest == _process_conditionals(content, i + 1, variables)
         IN  [rest EXCEPT !.text = <<content[i]>> \o @]

\* Line 232: TemplateRenderer._process_variables(block_content, item_context),
\* a call with two arguments of a function that requires three: TypeError.
LoopItem(block_content, item_context) ==
    [text |-> <<>>, missing |-> {}, error |-> "TypeError"]

RECURSIVE _process_loops(_, _, _)
\* _process_loops, on the text from token i on.
_process_loops(content, i, variables) ==
    IF i > Len(content) THEN [text |-> <<>>, missing |-> {}, error |-> "none"]
    ELSE IF content[i].k = "each" /\ FirstClose(content, i, "endeach") # 0
    THEN LET j == FirstClose(content, i, "endeach")
             rest == _process_loops(content, j + 1, variables)
             var_name == content[i].n
         IN  IF var_name \notin DOMAIN variables
             THEN [rest EXCEPT !.missing = @ \cup {var_name}]
             ELSE IF variables[var_name].t = "list" /\ variables[var_name].items # <<>>
             THEN LoopItem(SubSeq(content, i + 1, j - 1),
                           [n \in DOMAIN variables \cup {"item"} |->
                               IF n = "item" THEN variables[var_name].items[1]
                               ELSE variables[n]])
             ELSE rest
    ELSE LET rest == _process_loops(content, i + 1, variables)
         IN  [rest EXCEPT !.text = <<content[i]>> \o @]

\* render(template_content, variables, escape_html): the rendered text and the
\* missing names, or the exception raised.
RenderText(template_content, variables, escape_html) ==
    LET c == _process_conditionals(template_content, 1, variables)
        l == _process_loops(c.text, 1, variables)
        v == _process_variables(l.text, variables, escape_html)
    IN  IF l.error # "none" THEN l
        ELSE [text |-> v.text, missing |-> c.missing \cup l.missing \cup v.missing,
              error |-> "none"]

\* The characters of a text, a tag standing as one element.
Flat(text) ==
    Joined([i \in 1..Len(text) |->
        IF text[i].k = "lit" THEN text[i].s
        ELSE IF text[i].k = "var" THEN <<"{{" \o text[i].n \o "}}">>
        ELSE IF text[i].k = "if" THEN <<"{{#if " \o text[i].n \o "}}">>
        ELSE IF text[i].k = "endif" THEN <<"{{/if}}">>
        ELSE IF text[i].k = "each" THEN <<"{{#each " \o text[i].n \o "}}">>
        ELSE <<"{{/each}}">>])

\* The tokens of the texts rendered, the values of x and of items.
Alphabet ==
    {Lit(<<"a", "<">>), Var("x"), Var("item"), If("x"), EndIf, Each("items"), EndEach}

Texts == UNION {[1..n -> Alphabet] : n \in 1..MaxTokens}

XValues ==
    {StrV(<<>>), StrV(<<"0">>), StrV(<<"f", "a", "l", "s", "e">>), StrV(<<"y">>),
     StrV(<<"<", "b", ">">>), NoneV, BoolV(FALSE), BoolV(TRUE), IntV(0), ListV(<<>>)}

ItemsValues ==
    {ListV(<<>>), ListV(<<StrV(<<"a">>), StrV(<<"b">>)>>), StrV(<<"y">>)}

Bindings ==
    {b \in UNION {[D -> XValues \cup ItemsValues] : D \in SUBSET {"x", "items"}} :
        /\ "x" \in DOMAIN b => b["x"] \in XValues
        /\ "items" \in DOMAIN b => b["items"] \in ItemsValues}

NoInput == [text |-> <<>>, variables |-> <<>>, escape_html |-> TRUE]

NoOutput == [text |-> <<>>, missing |-> {}, error |-> "unset"]

\* No call of render is being looked at.
TextIdle ==
    /\ rin = NoInput
    /\ rout = NoOutput

\* render is about to be called with a text and a binding.
InitText ==
    /\ \E text \in Texts, variables \in Bindings :
          rin = [text |-> text, variables |-> variables, escape_html |-> TRUE]
    /\ rout = NoOutput

\* The call of render.
RenderApply(escape_html) ==
    /\ rout = NoOutput
    /\ rin' = [rin EXCEPT !.escape_html = escape_html]
    /\ rout' = RenderText(rin.text, rin.variables, escape_html)
    /\ UNCHANGED <<storeVars, breakerVars, mirrorVars, renderVars>>

NextText == \E escape_html \in BOOLEAN : RenderApply(escape_html)

(***************************************************************************)
(* The other methods of the cache-aside manager of views.py, called on     *)
(* their own, with or without an organization id                           *)
(***************************************************************************)
ManagerTargets == Targets \cup {<<"", "c", "en">>}

ListOps == {"by_type", "by_tag", "all"}

\* invalidate_template called directly, lines 1384-1390: the guard.
ManagerInvalidateStart(p, t) ==
    LET r == [org |-> t[1], code |-> t[2], language |-> t[3], action |-> "invalidate"]
    IN  /\ pc[p] = "idle"
        /\ IF OrgMissing(t[1])
           THEN /\ Respond(p, r, "invalidate", "none", NoRow, FALSE, FALSE, TRUE, FALSE)
                /\ pc' = [pc EXCEPT ![p] = "done"]
                /\ UNCHANGED req
           ELSE /\ req' = [req EXCEPT ![p] = r]
                /\ pc' = [pc EXCEPT ![p] = "mgr_delete"]
                /\ UNCHANGED resp
        /\ UNCHANGED <<db, cache, inst, pend, data, targets, rowcap, breakerVars, mirrorVars, renderVars, textVars>>

\* lines 1392-1398: the delete; its failure is logged.
ManagerDelete(p) ==
    LET k == KeyOf(req[p])
    IN  /\ pc[p] = "mgr_delete"
        /\ \E ok \in BOOLEAN :
              cache' = IF ok THEN [cache EXCEPT ![k] = NoEntry] ELSE MarkStale(cache, k)
        /\ Respond(p, req[p], "invalidate", "none", NoRow, FALSE, FALSE, TRUE, FALSE)
        /\ pc' = [pc EXCEPT ![p] = "done"]
        /\ req' = [req EXCEPT ![p] = NoReq]
        /\ data' = [q \in Procs |->
                      IF q # p /\ pc[q] = "get_set" /\ KeyOf(req[q]) = k
                      THEN [data[q] EXCEPT !.stale = TRUE] ELSE data[q]]
        /\ UNCHANGED <<db, inst, pend, targets, rowcap, breakerVars, mirrorVars, renderVars, textVars>>

\* get_templates_by_type, get_templates_by_tag, get_all_templates: the guard.
ListStart(p, op, org) ==
    LET r == [org |-> org, code |-> "", language |-> "", action |-> op]
    IN  /\ pc[p] = "idle"
        /\ IF OrgMissing(org)
           THEN /\ Respond(p, r, "list", "empty", {}, FALSE, FALSE, TRUE, FALSE)
                /\ pc' = [pc EXCEPT ![p] = "done"]
                /\ UNCHANGED req
           ELSE /\ req' = [req EXCEPT ![p] = r]
                /\ pc' = [pc EXCEPT ![p] = "list_db"]
                /\ UNCHANGED resp
        /\ UNCHANGED <<db, cache, inst, pend, data, targets, rowcap, breakerVars, mirrorVars, renderVars, textVars>>

\* The rows the query of a listing selects: the active ones of the
\* organization, of type "email" for by_type, with tag "t" for by_tag.
Listed(d, op, org) ==
    {i \in Ids(d) :
        /\ d[i].status = "active"
        /\ d[i].org = org
        /\ op = "by_type" => template_type(d[i]) = "email"
        /\ op = "by_tag" => "t" \in tags(d[i])}

\* The query of a listing and the serialized rows.
ListDb(p) ==
    /\ pc[p] = "list_db"
    /\ Respond(p, req[p], "list", "listed",
               {_serialize_template(db[i]) : i \in Listed(db, req[p].action, req[p].org)},
               FALSE, FALSE, TRUE, FALSE)
    /\ pc' = [pc EXCEPT ![p] = "done"]
    /\ req' = [req EXCEPT ![p] = NoReq]
    /\ UNCHANGED <<db, cache, inst, pend, data, targets, rowcap, breakerVars, mirrorVars, renderVars, textVars>>

\* The methods of the manager, called by the workers R.
NextManagerCalls(R) ==
    \/ \E p \in R, t \in targets : GetRejected(p, t)
    \/ \E p \in R, t \in targets : ManagerInvalidateStart(p, t)
    \/ \E p \in R : ManagerDelete(p)
    \/ \E p \in R, op \in ListOps, t \in targets : ListStart(p, op, t[1])
    \/ \E p \in R : ListDb(p)

InitStore ==
    InitOn(Targets, MaxRows, <<>>) /\ InitBreaker /\ InitRender(NoTemplate) /\ TextIdle /\ InitMirrorAt(FALSE, 1)

InitTenants ==
    InitOn(TenantTargets, MaxRowsTenants, <<>>) /\ InitBreaker /\ InitRender(NoTemplate) /\ TextIdle /\ InitMirrorAt(FALSE, 1)

InitMirror ==
    InitOn(Targets, MaxRows, MirrorRows) /\ InitBreaker /\ InitRender(NoTemplate) /\ TextIdle /\ InitMirrorAt(TRUE, 1)

InitConstruct ==
    /\ InitOn(Targets, MaxRows, MirrorRows) /\ InitBreaker /\ InitRender(NoTemplate) /\ TextIdle
    /\ \E v \in 1..MaxVersion : InitMirrorAt(FALSE, v)

SpecBreaker == InitStore /\ [][NextBreaker]_vars

SpecHealth == InitStore /\ [][NextHealth]_vars

SpecMirror == InitMirror /\ [][NextMirror]_vars

SpecConstruct == InitConstruct /\ [][NextConstruct]_vars

SpecReaders == InitMirror /\ [][NextReaders]_vars

SpecConverge == InitMirror /\ [][NextConverge]_vars /\ FairConverge

\* Publish, archive, create and update requests served concurrently.
NextLifecycle == NextWrites(Procs)

SpecLifecycle == InitStore /\ [][NextLifecycle]_vars

\* Reads served concurrently with the writes of one worker.
NextStore == NextWrites({"p1"}) \/ NextReads({"p2"})

SpecStore == InitStore /\ [][NextStore]_vars

SpecTenants == InitTenants /\ [][NextStore]_vars

\* One template and a table with room for a third version of it.
InitVersions ==
    InitOn({<<"a", "c", "en">>}, MaxRowsTenants, <<>>) /\ InitBreaker /\ InitRender(NoTemplate) /\ TextIdle /\ InitMirrorAt(FALSE, 1)

SpecVersions == InitVersions /\ [][NextLifecycle]_vars

(***************************************************************************)
(* Properties of the store and of the cache-aside manager                  *)
(***************************************************************************)
HoldsActive(d, org, code, language) ==
    \E i \in InGroup(d, org, code, language) : d[i].status = "active"

TargetOrgs == {t[1] : t \in targets}

\* C1 (tenant isolation): when two organizations each hold an active template
\* with the same code and language, a get_template scoped to one of them never
\* returns a record of the other, on a hit or on a miss.
C1_TenantIsolation ==
    \A p \in Procs :
        (resp[p].kind = "get" /\ resp[p].outcome = "found") =>
            \A B \in TargetOrgs :
                ( /\ B # resp[p].org
                  /\ HoldsActive(db, resp[p].org, resp[p].code, resp[p].language)
                  /\ HoldsActive(db, B, resp[p].code, resp[p].language) )
                => resp[p].value.organization_id # B

\* The non-archived versions of the group of r that are the default.
DefaultsOf(d, r) ==
    {i \in InGroup(d, r.org, r.code, r.language) :
        d[i].is_default /\ d[i].status # "archived"}

\* C2 (default uniqueness): no group ever has two defaults among its
\* non-archived versions, and every activate that commits, whatever other
\* activate calls run concurrently, leaves its group with exactly one.
C2_DefaultUniqueness ==
    [][ /\ \A t \in targets :
              Cardinality(DefaultsOf(db', [org |-> t[1], code |-> t[2],
                                           language |-> t[3]])) <= 1
        /\ \A p \in Procs :
              (pc[p] = "act_save" /\ pc'[p] = "invalidate") =>
                  Cardinality(DefaultsOf(db', inst[p])) = 1 ]_vars

\* Two activate calls on the same version ran concurrently and both committed.
C2_Witness ==
    /\ pc["p1"] = "invalidate" /\ pc["p2"] = "invalidate"
    /\ req["p1"].action = "publish" /\ req["p2"].action = "publish"
    /\ inst["p1"].id = inst["p2"].id
    /\ Cardinality(DefaultsOf(db, inst["p1"])) = 1

\* C3 (cache coherence): once invalidate_template has returned, a get_template
\* hit on that key does not return a record that was loaded from the store
\* before the invalidation and is no longer what the store answers.
C3_CacheCoherence ==
    \A p \in Procs :
        (resp[p].kind = "get" /\ resp[p].hit) =>
            ~(resp[p].stale /\ ~resp[p].current)

C8_InvalidateBeforeSuccess ==
    \A p \in Procs :
        (resp[p].kind = "lifecycle" /\ resp[p].outcome = "success")
            => ~resp[p].left

(***************************************************************************)
(* Properties of the RedisClient                                           *)
(***************************************************************************)
\* C4 (circuit breaker fail-fast): a call that starts while the circuit is
\* open (threshold reached, client marked disconnected) does not attempt a
\* connection to the remote store.
C4_FailFast ==
    \A t \in Threads : openAtStart[t] => ~pinged[t]

\* C5 (circuit breaker reset): a successful probe, the ping of the
\* re-initialization, closes the circuit and resets the error counter to zero.
C5_ProbeResets ==
    [][ \A t \in Threads :
          (rpc[t] = "init_ping" /\ rpc'[t] = "conn_ping")
              => (is_connected' /\ connection_errors' = 0) ]_vars

(***************************************************************************)
(* Properties of the mirror                                                *)
(***************************************************************************)
\* C9 (mirror self-heal): once a get_template that missed the by-key index has
\* fetched the active default of the key and inserted it, a get_template for
\* the same key hits the mirror, with no full reload needed, for as long as
\* nothing has replaced the index or removed the key (an index swap, an
\* invalidate_template of the key, an eviction, a construction).
C9_SelfHeal ==
    \A t \in MThreads :
        /\ (mresp[t].kind = "get" /\ mresp[t].healed) => mresp[t].hit
        /\ mpc[t] \in {"get_db", "get_insert"} => ~mloc[t].healed

\* A get_template hits an entry that a self-heal inserted.
C9_Witness ==
    \E t \in MThreads :
        /\ mresp[t].kind = "get" /\ mresp[t].hit /\ mresp[t].healed
        /\ mresp[t].value.status = "active"

\* The thread is inside _load_templates_from_db.
InReload(t) ==
    mpc[t] \in {"load_read", "swap_templates", "swap_by_type", "swap_by_tag"}

\* C10 (no two full reloads at once): at no time are two threads inside the
\* full reload, whether they come from the background worker, sync_from_db,
\* invalidate or the construction of the cache.
C10_SingleReload ==
    Cardinality({t \in MAll : InReload(t)}) <= 1

\* The statistics of the index set a full reload or an eviction builds from
\* the records recs.
StatsOf(recs) ==
    [templates_cached |-> Cardinality(Cached(IndexOf(recs))),
     types |-> [ty \in Types |-> Len(ByTypeOf(recs)[ty])],
     tags |-> [tg \in Tags |-> Len(ByTagOf(recs)[tg])]]

\* The statistics of every index set a reload or an eviction can install: the
\* sets built from some of the rows of the table, each active.
GenerationStats ==
    {StatsOf([i \in 1..Len(s) |-> MirrorSerialize(Activated(db[s[i]]))]) :
        s \in UNION {Orders(db, S, FALSE) : S \in SUBSET Ids(db)}}

\* C11 (atomic index swap as seen by readers): the statistics get_stats
\* returns while reloads and evictions run are those of one complete index
\* set, the by-key, by-type and by-tag index of the same generation.
C11_ReadersSeeOneGeneration ==
    \A t \in MThreads :
        mresp[t].kind = "stats" => mresp[t].value \in GenerationStats

\* C12 (eventual convergence): if the version counter stops changing at v while
\* the stores stay reachable, then, the scheduler being fair to the background
\* worker, the mirror's current_version is eventually v for good; every
\* process's mirror converges to the counter, hence all to the same version.
C12_EventualConvergence ==
    \A v \in 1..MaxVersion :
        <>[](remote_version = v) => <>[](current_version = v)

\* The worker has found the counter changed to its last value, has reloaded
\* and is about to record the version.
C12_Witness ==
    /\ mpc[Worker] = "sync_finish"
    /\ mloc[Worker].rv = remote_version
    /\ remote_version = MaxVersion
    /\ current_version # remote_version

\* The manager called with and without an organization id while one worker
\* writes the store.
InitManager ==
    InitOn(ManagerTargets, MaxRows, <<>>) /\ InitBreaker /\ InitRender(NoTemplate) /\ TextIdle /\ InitMirrorAt(FALSE, 1)

NextManager == NextWrites({"p1"}) \/ NextReads({"p2"}) \/ NextManagerCalls({"p2"})

SpecManager == InitManager /\ [][NextManager]_vars

\* One thread renders a template, any of RTemplates; the store can fail.
InitRenderer ==
    /\ InitOn(Targets, MaxRows, <<>>) /\ InitBreaker /\ InitMirrorAt(FALSE, 1)
    /\ \E tpl \in RTemplates : InitRender(tpl) /\ TextIdle

NextRender == NextRenderOf({"r1"}, BOOLEAN)

SpecRender == InitRenderer /\ [][NextRender]_vars

\* One thread renders; the transaction of the usage log can fail as a whole.
NextSink == NextRender \/ LogRenderEscapes("r1")

SpecSink == InitRenderer /\ [][NextSink]_vars

\* Two threads render the same template, one that refers to x in its content
\* and to y in its subject, while the store accepts the writes.
UsageTemplate == [content |-> {"x"}, html_content |-> {}, subject |-> {"y"}]

InitUsage ==
    /\ InitOn(Targets, MaxRows, <<>>) /\ InitBreaker /\ InitMirrorAt(FALSE, 1)
    /\ InitRender(UsageTemplate) /\ TextIdle

NextUsage == NextRenderOf(RThreads, {TRUE})

SpecUsage == InitUsage /\ [][NextUsage]_vars

\* render called once on a text and a binding, any of Texts and Bindings.
InitTexts ==
    /\ InitOn(Targets, MaxRows, <<>>) /\ InitBreaker /\ InitMirrorAt(FALSE, 1)
    /\ InitRender(NoTemplate) /\ InitText

SpecText == InitTexts /\ [][NextText]_vars

(***************************************************************************)
(* Properties of the version counter and of the cache-aside manager        *)
(***************************************************************************)
\* C13 (version counter bumped on mutation): when a publish or an archive
\* returns success, the version counter in the remote cache is above the
\* value 1 it had before any mutation, so that a mirror which recorded that
\* value sees a different one on its next poll.
C13_VersionBumped ==
    \A p \in Procs :
        (resp[p].kind = "lifecycle" /\ resp[p].outcome = "success")
            => remote_version > 1

\* C14 (no negative caching): a get_template that finds no record in the store
\* answers absent and leaves the remote cache as it was, and no get_template
\* answers absent while the store holds a record for the request: a request
\* made after a publish gets the published record.
C14_NoNegativeCaching ==
    [][\A p \in Procs :
          (resp[p].kind # "get" /\ resp'[p].kind = "get" /\ resp'[p].outcome = "absent")
              => /\ cache' = cache
                 /\ Answers(db, resp'[p]) = {}]_vars

\* A get_template has answered absent for a key whose group holds a draft, and
\* the cache holds nothing under the key.
C14_Witness ==
    \E p \in Procs :
        /\ resp[p].kind = "get" /\ resp[p].outcome = "absent"
        /\ IsNone(cache[KeyOf(resp[p])])
        /\ \E i \in InGroup(db, resp[p].org, resp[p].code, resp[p].language) :
              db[i].status = "draft"

\* C15 (cache failures degrade, never propagate): get_template answers found
\* or absent and nothing else; once the cache read has missed or failed the
\* store is read, and what it returned is the answer whether or not the cache
\* write that follows succeeds.
C15_CacheFailuresDegrade ==
    [][\A p \in Procs :
          /\ resp'[p].kind = "get" => resp'[p].outcome \in {"found", "absent"}
          /\ (pc[p] = "get_db" /\ pc'[p] = "get_set")
                => data'[p].data \in Answers(db, req[p])
          /\ (pc[p] = "get_db" /\ pc'[p] = "done")
                => resp'[p].outcome = "absent" /\ Answers(db, req[p]) = {}
          /\ (pc[p] = "get_set" /\ pc'[p] = "done")
                => /\ resp'[p].outcome = "found"
                   /\ resp'[p].value = data[p].data
                   /\ ~resp'[p].hit]_vars

\* The store was read although the cache holds an entry under the key (the
\* cache read failed), and the record was returned although nothing new is in
\* the cache (the cache write failed).
C15_Witness ==
    \E p \in Procs :
        /\ resp[p].kind = "get" /\ resp[p].outcome = "found" /\ ~resp[p].hit
        /\ ~IsNone(cache[KeyOf(resp[p])])
        /\ cache[KeyOf(resp[p])].data # resp[p].value

\* C16 (missing organization id is rejected): a call of get_template,
\* invalidate_template or one of the three listings without an organization id
\* returns absent or empty straight from its first statement, before any read
\* of the store or read or write of the cache, and leaves both as they were.
C16_MissingOrgRejected ==
    [][\A p \in Procs :
          /\ (resp[p].kind = "none" /\ resp'[p].kind \in {"get", "invalidate", "list"}
                 /\ resp'[p].org = "")
                => /\ pc[p] = "idle"
                   /\ cache' = cache /\ db' = db
                   /\ IF resp'[p].kind = "list" THEN resp'[p].value = {}
                      ELSE IsNone(resp'[p].value)
          /\ pc'[p] \in {"get_db", "get_set", "mgr_delete", "list_db"}
                => req'[p].org # ""]_vars

\* A listing without an organization id has returned while the store holds an
\* active template.
C16_Witness ==
    \E p \in Procs :
        /\ resp[p].kind = "list" /\ resp[p].org = "" /\ resp[p].outcome = "empty"
        /\ \E i \in Ids(db) : db[i].status = "active"

(***************************************************************************)
(* Properties of render_template                                           *)
(***************************************************************************)
\* C17 (RenderTimeout retry): a call whose first attempt fails with the timeout
\* makes a second attempt, and when that one times out as well the timeout is
\* what the caller gets; a call whose first attempt fails otherwise makes no
\* second attempt.
C17_TimeoutRetried ==
    \A t \in RThreads :
        rnd[t].pc = "done" =>
            /\ rnd[t].causes[1] = "TimeoutError"
                  => /\ Len(rnd[t].causes) = 2
                     /\ rnd[t].causes[2] = "TimeoutError"
                           => rnd[t].outcome \in {"TimeoutError", "RetryError"}
            /\ rnd[t].causes[1] \in {"VariableMissingError", "Exception"}
                  => Len(rnd[t].causes) = 1

\* The names missing from the three fields for the variables of a call.
MissingUnion(variables) ==
    render(template.content, variables) \cup render(template.html_content, variables)
        \cup render(template.subject, variables)

\* C18 (VariableMissing carries the union): an attempt that neither times out
\* nor fails in rendering, and for which one of content, html_content and
\* subject misses a variable, fails with VariableMissingError, and the error
\* names the union of what the three fields miss.
C18_MissingUnion ==
    \A t \in RThreads :
        (/\ rnd[t].pc \in {"log", "raise", "done"}
         /\ Last(rnd[t].causes) \notin {"TimeoutError", "Exception"}
         /\ MissingUnion(rnd[t].variables) # {})
            => /\ Last(rnd[t].causes) = "VariableMissingError"
               /\ rnd[t].names = MissingUnion(rnd[t].variables)

C21_SinkNeverFailsRender ==
    \A t \in RThreads :
        rnd[t].pc = "done" =>
            /\ rnd[t].rendered => rnd[t].outcome = "ok"
            /\ ~rnd[t].rendered => rnd[t].outcome = "RenderError"

(***************************************************************************)
(* Properties of render                                                    *)
(***************************************************************************)
Plain(text) == \A i \in 1..Len(text) : text[i].k \in {"lit", "var"}

RECURSIVE Expanded(_, _, _, _)
\* The block rendered for the elements k, k + 1, ... of a sequence, item bound
\* to the element over the outer variables.
Expanded(block, items, k, variables) ==
    IF k > Len(items) THEN <<>>
    ELSE _process_variables(block,
                            [n \in DOMAIN variables \cup {"item"} |->
                                IF n = "item" THEN items[k] ELSE variables[n]],
                            rin.escape_html).text
         \o Expanded(block, items, k + 1, variables)

\* C24 (loop expansion): for {{#each items}}B{{/each}}, B of literals and
\* placeholders and items bound to a sequence, render returns B rendered once
\* per element, in order, item bound to the element; for
\* "{{#each items}}{{item}}{{/each}}" and items = [a, b] it returns "ab".
C24_LoopExpanded ==
    (/\ rout.error # "unset"
     /\ Len(rin.text) >= 2
     /\ rin.text[1] = Each("items") /\ rin.text[Len(rin.text)] = EndEach
     /\ Plain(SubSeq(rin.text, 2, Len(rin.text) - 1))
     /\ "items" \in DOMAIN rin.variables
     /\ rin.variables["items"].t = "list")
        => /\ rout.error = "none"
           /\ Flat(rout.text) =
                 Flat(Expanded(SubSeq(rin.text, 2, Len(rin.text) - 1),
                               rin.variables["items"].items, 1, rin.variables))
           /\ (rin.text = <<Each("items"), Var("item"), EndEach>>
               /\ rin.variables["items"].items = <<StrV(<<"a">>), StrV(<<"b">>)>>)
                 => Flat(rout.text) = <<"a", "b">>

\* The values for which the block of a conditional is removed.
Falsy ==
    {StrV(<<>>), StrV(<<"0">>), StrV(<<"f", "a", "l", "s", "e">>), NoneV,
     BoolV(FALSE), IntV(0), ListV(<<>>)}

\* The string form of a value: what is substituted for it, "true" and "false"
\* for the booleans.
StringForm(val) ==
    IF val.t = "bool"
    THEN IF val.n = 1 THEN <<"t", "r", "u", "e">> ELSE <<"f", "a", "l", "s", "e">>
    ELSE Substituted(val, FALSE)

\* C25 (conditional truthiness), as claimed: for {{#if x}}B{{/if}} with x
\* bound, the block is removed when the string form of the value is empty,
\* "false" or "0", B is kept otherwise, and x is not reported missing.
C25_TruthinessByString ==
    (/\ rout.error = "none"
     /\ rin.text = <<If("x"), Lit(<<"a", "<">>), EndIf>>
     /\ "x" \in DOMAIN rin.variables)
        => /\ Flat(rout.text) =
                 IF StringForm(rin.variables["x"])
                       \in {<<>>, <<"f", "a", "l", "s", "e">>, <<"0">>}
                 THEN <<>> ELSE <<"a", "<">>
           /\ rout.missing = {}

\* C25 (conditional truthiness), amended: for {{#if x}}B{{/if}} with x bound,
\* the block is removed when the value is false in a boolean context (None,
\* False, 0, an empty string, an empty list) or is the string "false" or "0",
\* B is kept otherwise, and in both cases x is not reported missing.
C25_Truthiness ==
    (/\ rout.error = "none"
     /\ rin.text = <<If("x"), Lit(<<"a", "<">>), EndIf>>
     /\ "x" \in DOMAIN rin.variables)
        => /\ Flat(rout.text) =
                 IF rin.variables["x"] \in Falsy THEN <<>> ELSE <<"a", "<">>
           /\ rout.missing = {}

\* render has removed the block for x bound to the empty sequence.
C25_Witness ==
    /\ rout.error = "none"
    /\ rin.text = <<If("x"), Lit(<<"a", "<">>), EndIf>>
    /\ "x" \in DOMAIN rin.variables
    /\ rin.variables["x"] = ListV(<<>>)
    /\ rout.text = <<>>

\* An entity html.escape writes.
Entities ==
    {<<"&", "a", "m", "p", ";">>, <<"&", "l", "t", ";">>, <<"&", "g", "t", ";">>,
     <<"&", "q", "u", "o", "t", ";">>, <<"&", "#", "x", "2", "7", ";">>}

\* No character of s is one html.escape replaces, but for the & of an entity.
Escaped(s) ==
    \A i \in 1..Len(s) :
        /\ s[i] \notin {"<", ">", "\"", "'"}
        /\ s[i] = "&" => \E e \in Entities :
                            i + Len(e) - 1 <= Len(s) /\ SubSeq(s, i, i + Len(e) - 1) = e

\* C26 (HTML escaping): with escape_html true, in a text of literals and
\* placeholders what is put in place of a placeholder is HTML-escaped and the
\* literals are as written; render of "{{x}}" with x = "<b>" returns
\* "&lt;b&gt;".
C26_HtmlEscaped ==
    (rout.error = "none" /\ rin.escape_html /\ Plain(rin.text)) =>
        /\ \A i \in 1..Len(rin.text) :
              IF rin.text[i].k = "lit" THEN rout.text[i] = rin.text[i]
              ELSE rout.text[i].k = "lit" => Escaped(rout.text[i].s)
        /\ (rin.text = <<Var("x")>> /\ "x" \in DOMAIN rin.variables
            /\ rin.variables["x"] = StrV(<<"<", "b", ">">>))
              => Flat(rout.text) = <<"&", "l", "t", ";", "b", "&", "g", "t", ";">>

\* render has returned "&lt;b&gt;" for "{{x}}" and x = "<b>".
C26_Witness ==
    /\ rout.error = "none" /\ rin.escape_html
    /\ rin.text = <<Var("x")>>
    /\ "x" \in DOMAIN rin.variables
    /\ rin.variables["x"] = StrV(<<"<", "b", ">">>)
    /\ Flat(rout.text) = <<"&", "l", "t", ";", "b", "&", "g", "t", ";">>

(***************************************************************************)
(* Properties of the RedisClient's calls                                   *)
(***************************************************************************)
\* C27 (health_check never throws): whatever the state of the client when
\* health_check runs (connected, circuit open, another thread re-initializing,
\* the store unreachable or answering with an error), the call ends by
\* returning a status, healthy or unhealthy, and never with an exception.
C27_HealthCheckNeverThrows ==
    \A t \in Threads :
        (rop[t] = "health_check" /\ rpc[t] = "done")
            => rres[t] \in {"healthy", "unhealthy"}

\* A health_check that started with the circuit open has returned unhealthy,
\* and one that found the store answering has returned healthy.
C27_Witness ==
    \E t, u \in Threads :
        /\ rop[t] = "health_check" /\ rpc[t] = "done"
        /\ openAtStart[t] /\ rres[t] = "unhealthy"
        /\ rop[u] = "health_check" /\ rpc[u] = "done" /\ rres[u] = "healthy"

\* C28 (bounded retry of transient failures only): a call makes at most 3
\* attempts to get a connection; an attempt after the first starts only at the
\* end of _handle_connection_error, that is after a redis.ConnectionError or
\* redis.TimeoutError; an attempt that finds the client initializing, or whose
\* re-initialization fails, ends the call there with that error, whatever the
\* number of attempts left.
C28_BoundedTransientRetry ==
    [][\A t \in Threads :
          /\ attempt'[t] <= 3
          /\ (attempt[t] >= 1 /\ attempt'[t] # attempt[t] /\ rpc'[t] # "idle")
                => /\ attempt'[t] = attempt[t] + 1
                   /\ rpc[t] = "handle_write"
          /\ (/\ rpc'[t] # rpc[t]
              /\ \/ rpc[t] = "check_initializing" /\ initializing
                 \/ rpc[t] = "init_ping" /\ ~is_connected')
                => /\ rpc'[t] = "done"
                   /\ attempt'[t] = attempt[t]
                   /\ rop[t] = "command" => rres'[t] = "RedisConnectionError"]_vars

\* A call has given up after its third attempt failed with a connection
\* error, and another call has ended at its first attempt with the error of a
\* client that was initializing.
C28_Witness ==
    \E t, u \in Threads :
        /\ rpc[t] = "done" /\ rres[t] = "RetryError" /\ attempt[t] = 3
        /\ rpc[u] = "done" /\ rres[u] = "RedisConnectionError" /\ attempt[u] = 1

(***************************************************************************)
(* Properties of the mirror's indexes                                      *)
(***************************************************************************)
\* The number of times the record e is in the list s.
Occurrences(s, e) == Cardinality({i \in 1..Len(s) : s[i] = e})

\* C29 (index consistency): whenever no reload, insert or eviction is inside
\* its critical section, every record of the by-key index is exactly once in
\* the list of its type and in the list of each of its tags, and those lists
\* hold no other record.
C29_IndexesConsistent ==
    lock = "none" =>
        /\ \A k \in Cached(templates) :
              /\ Occurrences(templates_by_type[templates[k].type], templates[k]) = 1
              /\ \A tg \in templates[k].tags :
                    Occurrences(templates_by_tag[tg], templates[k]) = 1
        /\ \A ty \in Types : \A i \in 1..Len(templates_by_type[ty]) :
              \E k \in Cached(templates) :
                  templates[k] = templates_by_type[ty][i] /\ templates[k].type = ty
        /\ \A tg \in Tags : \A i \in 1..Len(templates_by_tag[tg]) :
              \E k \in Cached(templates) :
                  templates[k] = templates_by_tag[tg][i] /\ tg \in templates[k].tags

(***************************************************************************)
(* Properties of the lookup behind the remote cache                        *)
(***************************************************************************)
\* C30 (cache-aside lookup returns only the active default): a record that
\* get_template returns after a cache miss or a cache error is active, has
\* is_default set, is of the organization and the code asked for, and is in
\* the language asked for or in English.
C30_OnlyActiveDefault ==
    \A p \in Procs :
        (resp[p].kind = "get" /\ ~resp[p].hit /\ resp[p].outcome = "found")
            => /\ resp[p].value.status = "active"
               /\ resp[p].value.is_default
               /\ resp[p].value.organization_id = resp[p].org
               /\ resp[p].value.code = resp[p].code
               /\ resp[p].value.language \in {resp[p].language, "en"}

(***************************************************************************)
(* Properties of the uniqueness constraints                                *)
(***************************************************************************)
\* C31 (the default-uniqueness constraint covers only defaults): the
\* non-default versions of a group never stand in the way of a publish: with
\* no other request in flight and the group still as the request read it, the
\* statement of activate that demotes the previous default and the
\* save that makes the newer version the default both go through.
C31_OnlyDefaultsConstrained ==
    [][\A p \in Procs :
          (/\ \A q \in Procs \ {p} : pc[q] \in {"idle", "done"}
           /\ pc[p] \in {"act_update", "act_save"}
           /\ inst[p] = db[inst[p].id]
           /\ pc[p] = "act_save" => pend[p] = OtherDefaults(db, inst[p])) =>
              /\ (pc[p] = "act_update" /\ pc'[p] # "act_update") => pc'[p] = "act_save"
              /\ (pc[p] = "act_save" /\ pc'[p] # "act_save") => pc'[p] = "invalidate"]_vars

\* C32 (version numbers grow): an update that finds the template creates a new
\* draft whose version is greater than every version its group holds, also
\* when an earlier update has not been published yet.
C32_VersionsGrow ==
    [][\A p \in Procs :
          (/\ resp[p].kind # "update" /\ resp'[p].kind = "update"
           /\ resp'[p].outcome # "not_found")
              => /\ resp'[p].outcome = "success"
                 /\ Len(db') = Len(db) + 1
                 /\ db'[Len(db')].status = "draft"
                 /\ \A i \in InGroup(db, resp'[p].org, resp'[p].code, resp'[p].language) :
                       db[i].version < db'[Len(db')].version]_vars

(***************************************************************************)
(* Properties of the reloads and of the construction of the mirror         *)
(***************************************************************************)
\* C33 (reload requests during a reload are no-ops): a sync_from_db request,
\* forced or not, that was made while the bulk load of another request was
\* under way does no bulk load of its own.
C33_ReloadDuringReloadIsNoOp ==
    \A t \in MAll :
        mloc[t].during =>
            mpc[t] \notin {"swap_templates", "swap_by_type", "swap_by_tag", "sync_finish"}

\* C34 (single background worker): the construction that starts the
\* background worker is the only one that initializes the instance, and it
\* finds no worker started yet.
C34_SingleWorker ==
    [][\A t \in MThreads :
          (mpc[t] = "init_done" /\ mpc'[t] # "init_done")
              => /\ ~worker_started
                 /\ \A u \in MThreads \ {t} :
                       mpc[u] \notin {"init_reset", "init_version", "load_read",
                                      "swap_templates", "swap_by_type",
                                      "swap_by_tag", "init_done"}]_vars

(***************************************************************************)
(* Properties of the circuit breaker under concurrency                     *)
(***************************************************************************)
\* C35 (the circuit-breaker state is safe under concurrency): every caller
\* that counts a connection failure raises the error counter by exactly one,
\* the client is marked disconnected in every state where the counter has
\* reached the threshold, and at most one call is inside the
\* re-initialization at a time.
C35_BreakerSafe ==
    [][/\ \A t \in Threads :
             (rpc[t] = "handle_write" /\ rpc'[t] # "handle_write")
                 => connection_errors' = connection_errors + 1
       /\ connection_errors' >= Threshold => ~is_connected'
       /\ Cardinality({t \in Threads : rpc'[t] = "init_ping"}) <= 1]_vars

(***************************************************************************)
(* Properties of the eviction                                              *)
(***************************************************************************)
\* C36 (eviction keeps 80%): an eviction of a mirror holding n records leaves
\* floor(0.8 * n) records in the by-key index, all of them records it held,
\* and the by-type and by-tag lists hold exactly the records left, for every n.
C36_EvictionKeepsFourFifths ==
    [][(mpc[Worker] = "monitor" /\ mpc'[Worker] # "monitor" /\ memory_high) =>
          /\ Cardinality(Cached(templates')) = (8 * Cardinality(Cached(templates))) \div 10
          /\ \A k \in Cached(templates') : templates'[k] = templates[k]
          /\ \A ty \in Types :
                {templates_by_type'[ty][i] : i \in 1..Len(templates_by_type'[ty])}
                    = {templates'[k] : k \in {j \in Cached(templates') :
                                                templates'[j].type = ty}}
          /\ \A tg \in Tags :
                {templates_by_tag'[tg][i] : i \in 1..Len(templates_by_tag'[tg])}
                    = {templates'[k] : k \in {j \in Cached(templates') :
                                                tg \in templates'[j].tags}}]_vars

(***************************************************************************)
(* Properties of the keys of the remote cache                              *)
(***************************************************************************)
\* C37 (cache entries match their key): the entry the remote cache holds
\* under template:{org}:{code}:{language} is a snapshot of a record of that
\* organization, that code and that language.
C37_EntriesMatchKey ==
    \A t \in targets :
        LET k == _make_template_cache_key(t[2], t[3], t[1])
        IN  (~IsNone(cache[k]) /\ ~IsNone(cache[k].data)) =>
                /\ cache[k].data.organization_id = t[1]
                /\ cache[k].data.code = t[2]
                /\ cache[k].data.language = t[3]

\* ---------------------------------------------------------------------------
\* The recorded version and the data behind it
\* ---------------------------------------------------------------------------

\* redis_client.incr(TEMPLATE_CACHE_VERSION_KEY) issued by another process of
\* the service after its write: the counter lives in Redis and is shared.
increment_cache_version ==
    /\ remote_version < MaxVersion
    /\ remote_version' = remote_version + 1
    /\ UNCHANGED <<instance, initialized, templates, templates_by_type,
                   templates_by_tag, current_version, memory_high, sync_lock, lock,
                   worker_started, mpc, mloc, mresp, healed, loadedAt,
                   storeVars, breakerVars, renderVars, textVars>>

\* Constructions of the mirror in one process, its background worker, and
\* writes with their counter increments made by other processes.
NextRecorded ==
    \/ NextConstruct
    \/ increment_cache_version

SpecRecorded == InitConstruct /\ [][NextRecorded]_vars

\* No thread is inside a construction or a reload.
MirrorAtRest ==
    \A t \in MAll :
        mpc[t] \notin {"init_reset", "init_version", "load_read", "swap_templates",
                       "swap_by_type", "swap_by_tag", "init_done", "sync_finish"}

\* C38 (the recorded version never runs ahead of the data): once the mirror is
\* initialized and no construction or reload is in progress, the bulk load
\* whose result the by-key index holds read the table no earlier than the
\* moment the counter took the value current_version, that is, when the
\* counter was already at least current_version.
C38_VersionNotAheadOfData ==
    (initialized /\ MirrorAtRest) => current_version <= loadedAt

\* C39 (the observed version is monotone): no step of an initialization, of a
\* background cycle or of sync_from_db lowers the mirror's current_version,
\* whether or not the read of the counter succeeds.
C39_ObservedVersionMonotone ==
    [][current_version' >= current_version]_vars

\* ---------------------------------------------------------------------------
\* The bulk load and the miss path on the same table
\* ---------------------------------------------------------------------------

\* Two organizations that each hold a template with the code c in English.
SharedCodeRows ==
    LET d1 == <<NewRow(<<>>, "a", "c", "en", 1)>>
    IN  Append(d1, NewRow(d1, "b", "c", "en", 1))

InitShared ==
    InitOn(Targets, MaxRows, SharedCodeRows) /\ InitBreaker /\ InitRender(NoTemplate) /\ TextIdle /\ InitMirrorAt(TRUE, 1)

SpecShared == InitShared /\ [][NextMirror]_vars

\* C40 (reload and self-heal agree): for every key, the record that the
\* by-key index built by a bulk load holds is the one record that the query of
\* the miss path selects from the same table.
C40_ReloadAndSelfHealAgree ==
    [][\A t \in {"c2", Worker} :
          (mpc[t] = "load_read" /\ mpc'[t] = "swap_templates") =>
              \A l \in MLangs :
                  LET e == IndexOf(mloc'[t].new)[MirrorKey("c", l)]
                  IN  e # NoEntry => first_active_default(db, "c", l) = {e.id}]_vars

====
